---- MODULE Spec2Model ----
(***************************************************************************)
(* FreeBirdPDF: the document state kept by PDFViewWidget (page sequence,   *)
(* page cursor, zoom, modified flag, pixmap cache, search results), the    *)
(* reorder dialog (ThumbnailViewDialog) and the tab set of PDFViewer.      *)
(*                                                                         *)
(* Page indices are 0-based as in the source; a document's pages are a     *)
(* TLA+ sequence, so the page at index i is pages[i + 1].  A page is       *)
(* represented by its content (a number); zoom factors are in thousandths  *)
(* (zoom_factor 1.0 is 1000).                                              *)
(***************************************************************************)
EXTENDS Integers, Sequences, FiniteSets, TLC

VARIABLES
    widgets,    \* the PDFViewWidget objects constructed so far, by widget id
    tabs,       \* PDFViewer.tabs: widget ids in display order
    current,    \* PDFViewer.tabs.currentIndex(), 1-based; 0 when no tab
    last        \* the handler that ran last, its arguments and its result

vars == <<widgets, tabs, current, last>>

----------------------------------------------------------------------------
(* Bounds of the model                                                     *)

MaxPages    == 3    \* pages of the small file
MaxAsmPages == 2    \* pages copied into one assembly document
MaxWidgets  == 2    \* tabs open at a time
MaxDrops    == 2    \* drag-and-drop moves made in one reorder dialog
MaxLongDrops == 1   \* the same, in the dialog of a document of more than MaxPages pages
MaxCopied == 3      \* pages copied into one assembly document, SpecTransplant
MaxHandles == 3     \* engine handles of one widget open at a time, SpecEngine

(* Program constants                                                       *)

CACHE_LIMIT        == 10    \* display_page: len(self.pixmap_cache) > 10
PROGRESS_THRESHOLD == 10    \* load_thumbnails: total_pages > 10
ZOOM_MIN           == 100   \* apply_zoom: max(0.1, ...)
ZOOM_MAX           == 5000  \* apply_zoom: min(factor, 5.0)
ZOOM_EPSILON       == 10    \* apply_zoom: abs(...) > 0.01
ZOOM_DEFAULT       == 1000  \* zoom_factor = 1.0

----------------------------------------------------------------------------
(* Helpers on sequences                                                    *)

Min(a, b) == IF a < b THEN a ELSE b
Max(a, b) == IF a > b THEN a ELSE b
Abs(a) == IF a < 0 THEN 0 - a ELSE a

Range(s) == {s[i] : i \in 1..Len(s)}

\* s without its element at 1-based position p
RemoveAt(s, p) == [i \in 1..(Len(s) - 1) |-> IF i < p THEN s[i] ELSE s[i + 1]]

\* s with x inserted so that it ends up at 1-based position p
InsertAt(s, p, x) ==
    [i \in 1..(Len(s) + 1) |-> IF i < p THEN s[i] ELSE IF i = p THEN x ELSE s[i - 1]]

\* list(range(n)): <<0, 1, ..., n-1>>
RangeList(n) == [i \in 1..n |-> i - 1]

----------------------------------------------------------------------------
(* The files the user can pick.  "A" is a small document whose pages are   *)
(* all different, "B" a document of two pages, "L" a document long enough  *)
(* to overflow the pixmap cache and to get a progress dialog in the        *)
(* reorder dialog, "X" is not a PDF.                                       *)

SmallFile == [i \in 1..MaxPages |-> i]
LongFile  == [i \in 1..(CACHE_LIMIT + 1) |-> IF i = 1 THEN 1 ELSE 0]

PairFile  == <<1, 2>>

FileReadable(path) == path \in {"A", "B", "L"}
FilePages(path) == IF path = "A" THEN SmallFile
                   ELSE IF path = "B" THEN PairFile
                   ELSE IF path = "L" THEN LongFile ELSE <<>>

(* fitz: page.search_for(query): the match rectangles of a page, here the  *)
(* rectangle <<content, k>> for the k-th hit on a page with that content.  *)
(* Odd page contents hold two hits of "foo", the others none.              *)
Queries == {"", "foo", "zzz"}

HitCount(content, query) ==
    IF query = "foo" /\ content % 2 = 1 THEN 2 ELSE 0

SearchFor(content, query) ==
    [k \in 1..HitCount(content, query) |-> <<content, k>>]

----------------------------------------------------------------------------
(* SearchResult                                                            *)

\* SearchResult.reset
SearchReset ==
    [query |-> "", results |-> <<>>, total_matches |-> 0,
     current_page |-> -1, current_match |-> -1]

(* results is a function from the page indices that have matches to their  *)
(* rectangle lists; <<>> is the empty dict.                                 *)
ResultPages(sr) == DOMAIN sr.results

\* SearchResult.has_results
HasResults(sr) == sr.total_matches > 0

\* sorted(self.results.keys()): the k-th smallest key
SortedPages(sr) ==
    LET keys == ResultPages(sr)
    IN  [k \in 1..Cardinality(keys) |->
            CHOOSE p \in keys : Cardinality({q \in keys : q < p}) = k - 1]

\* pages.index(p)
IndexOf(seq, p) == CHOOSE k \in 1..Len(seq) : seq[k] = p

\* the sum of len(self.results[page]) over the pages in ps
RECURSIVE CountMatches(_, _)
CountMatches(sr, ps) ==
    IF ps = {} THEN 0
    ELSE LET p == CHOOSE q \in ps : TRUE
         IN  Len(sr.results[p]) + CountMatches(sr, ps \ {p})

(* SearchResult.get_current_match_index: the 0-based number of the current  *)
(* match across all pages, the k - 1 of "Match k of N".                     *)
GetCurrentMatchIndex(sr) ==
    IF ~HasResults(sr) \/ sr.current_match < 0 \/ sr.current_page < 0 THEN -1
    ELSE CountMatches(sr, {p \in ResultPages(sr) : p < sr.current_page})
         + (IF sr.current_page \in ResultPages(sr) THEN sr.current_match ELSE 0)

----------------------------------------------------------------------------
(* Pixmaps: what a rendered page shows                                     *)

NullPixmap ==
    [content |-> -1, rects |-> <<>>, active |-> -1, error |-> FALSE, fresh |-> FALSE]

\* image_label.setText(...): the label shows a message and a null pixmap
TextLabel == [kind |-> "text", pixmap |-> NullPixmap]

PixmapLabel(pm) == [kind |-> "pixmap", pixmap |-> pm]

----------------------------------------------------------------------------
(* PDFViewWidget                                                           *)

NoDoc == [open |-> FALSE, pages |-> <<>>]
OpenDoc(pages) == [open |-> TRUE, pages |-> pages]

(* PDFViewWidget.__init__ without a filepath.  saved_pages is not a field   *)
(* of the program: it records the pages the document had when it was last  *)
(* loaded, created or saved.  open_handles is not one either: it counts the *)
(* fitz.open() calls of the widget's handlers whose document has not had    *)
(* close() called on it.  display_at is the position of the widget's        *)
(* display_page call: "idle" when none is running, "try" in its try block,  *)
(* "finally" at its finally block, "refresh" in the call of                 *)
(* update_ui_for_current_tab that ends the finally block.                   *)
NewWidget(is_assembly) ==
    [doc |-> NoDoc,
     update_in_progress |-> FALSE,
     display_at |-> "idle",
     saved_pages |-> <<>>,
     open_handles |-> 0,
     current_filepath |-> "",
     current_page |-> 0,
     total_pages |-> 0,
     zoom_factor |-> ZOOM_DEFAULT,
     is_modified |-> FALSE,
     pixmap_cache |-> <<>>,
     is_assembly_target |-> is_assembly,
     search_results |-> SearchReset,
     image_label |-> TextLabel]

(* Every handler starts with the pixmaps of earlier handlers being old:    *)
(* fresh marks the pixmaps rendered by the handler that ran last.          *)
AgedPixmap(pm) == [pm EXCEPT !.fresh = FALSE]

AgedWidget(wd) ==
    [wd EXCEPT
        !.pixmap_cache = [i \in 1..Len(wd.pixmap_cache) |->
                            [wd.pixmap_cache[i] EXCEPT
                                !.pixmap = AgedPixmap(wd.pixmap_cache[i].pixmap)]],
        !.image_label = [wd.image_label EXCEPT
                            !.pixmap = AgedPixmap(wd.image_label.pixmap)]]

Aged(ws) == [w \in DOMAIN ws |-> AgedWidget(ws[w])]

\* self.pixmap_cache.get(page_key): position of the key in the dict, 0 if absent
CacheFind(cache, page, zoom) ==
    IF \E i \in 1..Len(cache) : cache[i].page = page /\ cache[i].zoom = zoom
    THEN CHOOSE i \in 1..Len(cache) : cache[i].page = page /\ cache[i].zoom = zoom
    ELSE 0

\* display_page, lines 229-269: rasterize the page and paint the highlights
RenderPixmap(wd) ==
    LET sr == wd.search_results
        cp == wd.current_page
        hl == cp \in ResultPages(sr)
        rects == IF hl THEN sr.results[cp] ELSE <<>>
    IN  [content |-> wd.doc.pages[cp + 1],
         rects |-> rects,
         active |-> IF hl /\ cp = sr.current_page
                        /\ sr.current_match \in 0..(Len(rects) - 1)
                    THEN sr.current_match ELSE -1,
         error |-> FALSE,
         fresh |-> TRUE]

\* display_page, lines 277-286: the engine raised, a placeholder is shown
ErrorPixmap ==
    [content |-> -1, rects |-> <<>>, active |-> -1, error |-> TRUE, fresh |-> TRUE]

\* the dict growing without the size limit
CacheInsertUnlimited(cache, entry) == Append(cache, entry)

\* the dict after self.pixmap_cache[page_key] = pixmap and the size limit
CacheInsert(cache, entry) ==
    LET added == Append(cache, entry)
    IN  IF Len(added) > CACHE_LIMIT THEN Tail(added) ELSE added

\* a hit that moves the entry to the newest position of the dict
CacheHitRefreshed(wd, pos) ==
    [wd EXCEPT !.pixmap_cache = Append(RemoveAt(wd.pixmap_cache, pos), wd.pixmap_cache[pos]),
               !.image_label = PixmapLabel(wd.pixmap_cache[pos].pixmap)]

\* display_page, lines 223-227 and 289: the cached pixmap is shown
CacheHit(wd, pos) ==
    [wd EXCEPT !.image_label = PixmapLabel(wd.pixmap_cache[pos].pixmap)]

\* PDFViewWidget.display_page, the try block (lines 208-290)
DisplayBody(wd) ==
    IF wd.total_pages = 0
    THEN [wd EXCEPT !.image_label = TextLabel]
    ELSE IF ~wd.doc.open \/ ~(0 <= wd.current_page /\ wd.current_page < wd.total_pages)
    THEN [wd EXCEPT !.image_label = TextLabel]
    ELSE LET pos == CacheFind(wd.pixmap_cache, wd.current_page, wd.zoom_factor)
         IN  IF pos # 0
             THEN CacheHit(wd, pos)
             ELSE IF wd.current_page + 1 > Len(wd.doc.pages)
             THEN [wd EXCEPT !.image_label = PixmapLabel(ErrorPixmap)]
             ELSE LET pm == RenderPixmap(wd)
                  IN  [wd EXCEPT
                        !.pixmap_cache =
                            CacheInsert(wd.pixmap_cache,
                                        [page |-> wd.current_page,
                                         zoom |-> wd.zoom_factor,
                                         pixmap |-> pm]),
                        !.image_label = PixmapLabel(pm)]

\* PDFViewWidget.get_current_page_info: the clamping it does on the cursor
GetCurrentPageInfo(wd) ==
    IF ~wd.doc.open THEN wd
    ELSE IF wd.total_pages = 0 THEN [wd EXCEPT !.current_page = 0]
    ELSE IF wd.current_page >= wd.total_pages
    THEN [wd EXCEPT !.current_page = Max(0, wd.total_pages - 1)]
    ELSE wd

(* PDFViewWidget.display_page.  isCur: the widget is the current tab of the *)
(* main window, so the finally block calls update_ui_for_current_tab, which *)
(* reads the page info through get_current_page_info.                       *)
DisplayPage(wd, isCur) ==
    IF isCur THEN GetCurrentPageInfo(DisplayBody(wd)) ELSE DisplayBody(wd)

\* display_page entered without looking at the flag
DisplayEnterUnguarded(wd) ==
    [wd EXCEPT !.update_in_progress = TRUE, !.display_at = "try"]

(* display_page, lines 202-206: a call made while _update_in_progress is    *)
(* set returns at once; otherwise the flag is set and the try block entered *)
DisplayEnter(wd) ==
    IF wd.update_in_progress THEN wd
    ELSE [wd EXCEPT !.update_in_progress = TRUE, !.display_at = "try"]

(* display_page, the try block (lines 208-290) with the engine raising in   *)
(* load_page or get_pixmap: the placeholder is shown and nothing is cached  *)
DisplayBodyFailing(wd) ==
    IF wd.total_pages = 0
    THEN [wd EXCEPT !.image_label = TextLabel]
    ELSE IF ~wd.doc.open \/ ~(0 <= wd.current_page /\ wd.current_page < wd.total_pages)
    THEN [wd EXCEPT !.image_label = TextLabel]
    ELSE LET pos == CacheFind(wd.pixmap_cache, wd.current_page, wd.zoom_factor)
         IN  IF pos # 0
             THEN CacheHit(wd, pos)
             ELSE [wd EXCEPT !.image_label = PixmapLabel(ErrorPixmap)]

(* display_page, the finally block (lines 291-300): the flag is cleared,    *)
(* then update_ui_for_current_tab is called if the widget is the current    *)
(* tab of the main window                                                   *)
DisplayLeave(wd, isCur) ==
    [wd EXCEPT !.update_in_progress = FALSE,
               !.display_at = IF isCur THEN "refresh" ELSE "idle"]

(* PDFViewWidget.mark_modified: a change of the flag calls                  *)
(* update_button_states, which reads the page info of the current tab.      *)
MarkModified(wd, modified, isCur) ==
    IF wd.is_modified = modified THEN wd
    ELSE IF isCur THEN GetCurrentPageInfo([wd EXCEPT !.is_modified = modified])
    ELSE [wd EXCEPT !.is_modified = modified]

\* PDFViewWidget.close_document
CloseDocument(wd) ==
    IF ~wd.doc.open THEN wd
    ELSE [wd EXCEPT
            !.doc = NoDoc,
            !.saved_pages = <<>>,
            !.open_handles = @ - 1,
            !.current_filepath = "",
            !.total_pages = 0,
            !.current_page = 0,
            !.is_modified = FALSE,
            !.pixmap_cache = <<>>,
            !.search_results = SearchReset]

\* PDFViewWidget.setup_assembly_doc
SetupAssemblyDoc(wd, name) ==
    DisplayBody([CloseDocument(wd) EXCEPT
        !.doc = OpenDoc(<<>>),
        !.saved_pages = <<>>,
        !.open_handles = @ + 1,
        !.current_filepath = name,
        !.total_pages = 0,
        !.current_page = 0,
        !.zoom_factor = ZOOM_DEFAULT,
        !.is_modified = FALSE,
        !.pixmap_cache = <<>>,
        !.is_assembly_target = TRUE,
        !.search_results = SearchReset])

\* load_pdf leaving the zoom factor of the replaced document
LoadPdfKeepingZoom(wd, path, isCur) ==
    IF wd.is_assembly_target THEN [w |-> wd, ok |-> FALSE]
    ELSE LET closed == CloseDocument(wd)
         IN  IF FileReadable(path)
             THEN LET loaded == [closed EXCEPT
                                    !.doc = OpenDoc(FilePages(path)),
                                    !.saved_pages = FilePages(path),
                                    !.open_handles = @ + 1,
                                    !.current_filepath = path,
                                    !.total_pages = Len(FilePages(path))]
                  IN  [w |-> IF loaded.total_pages > 0 THEN DisplayPage(loaded, isCur)
                             ELSE [loaded EXCEPT !.image_label = TextLabel],
                       ok |-> TRUE]
             ELSE [w |-> [closed EXCEPT !.image_label = TextLabel], ok |-> FALSE]

\* PDFViewWidget.load_pdf: the widget afterwards and the value returned
LoadPdf(wd, path, isCur) ==
    IF wd.is_assembly_target THEN [w |-> wd, ok |-> FALSE]
    ELSE LET closed == CloseDocument(wd)
         IN  IF FileReadable(path)
             THEN LET loaded == [closed EXCEPT
                                    !.doc = OpenDoc(FilePages(path)),
                                    !.saved_pages = FilePages(path),
                                    !.open_handles = @ + 1,
                                    !.current_filepath = path,
                                    !.total_pages = Len(FilePages(path)),
                                    !.current_page = 0,
                                    !.zoom_factor = ZOOM_DEFAULT,
                                    !.is_modified = FALSE,
                                    !.pixmap_cache = <<>>,
                                    !.search_results = SearchReset]
                  IN  [w |-> IF loaded.total_pages > 0 THEN DisplayPage(loaded, isCur)
                             ELSE [loaded EXCEPT !.image_label = TextLabel],
                       ok |-> TRUE]
             ELSE [w |-> [closed EXCEPT
                            !.doc = NoDoc,
                            !.current_filepath = "",
                            !.total_pages = 0,
                            !.image_label = TextLabel],
                   ok |-> FALSE]

\* goto_page taking any index other than the current one
GotoPageAnywhere(wd, page_index, isCur) ==
    IF wd.doc.open /\ wd.current_page # page_index
    THEN [w |-> DisplayPage([wd EXCEPT !.current_page = page_index], isCur), ok |-> TRUE]
    ELSE [w |-> wd, ok |-> FALSE]

\* PDFViewWidget.goto_page
GotoPage(wd, page_index, isCur) ==
    IF wd.doc.open /\ 0 <= page_index /\ page_index < wd.total_pages
       /\ wd.current_page # page_index
    THEN [w |-> DisplayPage([wd EXCEPT !.current_page = page_index], isCur), ok |-> TRUE]
    ELSE [w |-> wd, ok |-> FALSE]

\* PDFViewWidget.next_page
NextPage(wd, isCur) ==
    IF wd.doc.open /\ wd.current_page < wd.total_pages - 1
    THEN [w |-> DisplayPage([wd EXCEPT !.current_page = wd.current_page + 1], isCur), ok |-> TRUE]
    ELSE [w |-> wd, ok |-> FALSE]

\* prev_page stepping back from the first page as well
PrevPageBelowFirst(wd, isCur) ==
    IF wd.doc.open /\ wd.current_page >= 0
    THEN [w |-> DisplayPage([wd EXCEPT !.current_page = wd.current_page - 1], isCur), ok |-> TRUE]
    ELSE [w |-> wd, ok |-> FALSE]

\* PDFViewWidget.prev_page
PrevPage(wd, isCur) ==
    IF wd.doc.open /\ wd.current_page > 0
    THEN [w |-> DisplayPage([wd EXCEPT !.current_page = wd.current_page - 1], isCur), ok |-> TRUE]
    ELSE [w |-> wd, ok |-> FALSE]

\* apply_zoom without the limits of the range
ApplyZoomUnclamped(wd, factor, isCur) ==
    IF wd.doc.open /\ factor > 0
    THEN IF Abs(wd.zoom_factor - factor) > ZOOM_EPSILON
         THEN [w |-> DisplayPage([wd EXCEPT !.zoom_factor = factor,
                                            !.pixmap_cache = <<>>], isCur),
               ok |-> TRUE]
         ELSE [w |-> wd, ok |-> FALSE]
    ELSE [w |-> wd, ok |-> FALSE]

\* apply_zoom taking every change of the factor, however small
ApplyZoomAnyChange(wd, factor, isCur) ==
    IF wd.doc.open /\ factor > 0
    THEN LET clamped == Max(ZOOM_MIN, Min(factor, ZOOM_MAX))
         IN  IF wd.zoom_factor # clamped
             THEN [w |-> DisplayPage([wd EXCEPT !.zoom_factor = clamped,
                                                !.pixmap_cache = <<>>], isCur),
                   ok |-> TRUE]
             ELSE [w |-> wd, ok |-> FALSE]
    ELSE [w |-> wd, ok |-> FALSE]

\* PDFViewWidget.apply_zoom
ApplyZoom(wd, factor, isCur) ==
    IF wd.doc.open /\ factor > 0
    THEN LET clamped == Max(ZOOM_MIN, Min(factor, ZOOM_MAX))
         IN  IF Abs(wd.zoom_factor - clamped) > ZOOM_EPSILON
             THEN [w |-> DisplayPage([wd EXCEPT !.zoom_factor = clamped,
                                                !.pixmap_cache = <<>>], isCur),
                   ok |-> TRUE]
             ELSE [w |-> wd, ok |-> FALSE]
    ELSE [w |-> wd, ok |-> FALSE]

----------------------------------------------------------------------------
(* Search                                                                   *)

\* add_matches counting the pages rather than the matches
AddMatchesCountingPages(sr, page_index, rects) ==
    IF Len(rects) > 0
    THEN [sr EXCEPT
            !.results = [p \in ResultPages(sr) \cup {page_index} |->
                            IF p = page_index THEN rects ELSE sr.results[p]],
            !.total_matches = sr.total_matches + 1]
    ELSE sr

\* SearchResult.add_matches
AddMatches(sr, page_index, rects) ==
    IF Len(rects) > 0
    THEN [sr EXCEPT
            !.results = [p \in ResultPages(sr) \cup {page_index} |->
                            IF p = page_index THEN rects ELSE sr.results[p]],
            !.total_matches = sr.total_matches + Len(rects)]
    ELSE sr

\* navigate_to_match stepping back to one past the last match of a page
NavigateToMatchPastEnd(sr, forward) ==
    LET pages == SortedPages(sr)
    IN  IF ~HasResults(sr) \/ Len(pages) = 0 THEN [sr |-> sr, page |-> -1]
        ELSE IF sr.current_page < 0 \/ sr.current_match < 0
        THEN [sr |-> [sr EXCEPT !.current_page = pages[1], !.current_match = 0],
              page |-> pages[1]]
        ELSE IF forward
        THEN IF sr.current_match + 1 < Len(sr.results[sr.current_page])
             THEN [sr |-> [sr EXCEPT !.current_match = sr.current_match + 1],
                   page |-> sr.current_page]
             ELSE LET current_page_index == IndexOf(pages, sr.current_page)
                      next == IF current_page_index + 1 <= Len(pages)
                              THEN pages[current_page_index + 1] ELSE pages[1]
                  IN  [sr |-> [sr EXCEPT !.current_page = next, !.current_match = 0],
                       page |-> next]
        ELSE IF sr.current_match > 0
             THEN [sr |-> [sr EXCEPT !.current_match = sr.current_match - 1],
                   page |-> sr.current_page]
             ELSE LET current_page_index == IndexOf(pages, sr.current_page)
                      prev == IF current_page_index > 1
                              THEN pages[current_page_index - 1]
                              ELSE pages[Len(pages)]
                  IN  [sr |-> [sr EXCEPT !.current_page = prev,
                                         !.current_match = Len(sr.results[prev])],
                       page |-> prev]

\* navigate_to_match going on to the next page after every match
NavigateToMatchSkipping(sr, forward) ==
    LET pages == SortedPages(sr)
    IN  IF ~HasResults(sr) \/ Len(pages) = 0 THEN [sr |-> sr, page |-> -1]
        ELSE IF sr.current_page < 0 \/ sr.current_match < 0
        THEN [sr |-> [sr EXCEPT !.current_page = pages[1], !.current_match = 0],
              page |-> pages[1]]
        ELSE LET current_page_index == IndexOf(pages, sr.current_page)
                 to == IF forward
                       THEN IF current_page_index + 1 <= Len(pages)
                            THEN pages[current_page_index + 1] ELSE pages[1]
                       ELSE IF current_page_index > 1
                            THEN pages[current_page_index - 1] ELSE pages[Len(pages)]
             IN  [sr |-> [sr EXCEPT !.current_page = to,
                                    !.current_match =
                                        IF forward THEN 0 ELSE Len(sr.results[to]) - 1],
                  page |-> to]

\* navigate_to_match wrapping backward onto the first match of the last page
NavigateToMatchWrappingToStart(sr, forward) ==
    LET pages == SortedPages(sr)
    IN  IF ~HasResults(sr) \/ Len(pages) = 0 THEN [sr |-> sr, page |-> -1]
        ELSE IF sr.current_page < 0 \/ sr.current_match < 0
        THEN [sr |-> [sr EXCEPT !.current_page = pages[1], !.current_match = 0],
              page |-> pages[1]]
        ELSE IF forward
        THEN IF sr.current_match + 1 < Len(sr.results[sr.current_page])
             THEN [sr |-> [sr EXCEPT !.current_match = sr.current_match + 1],
                   page |-> sr.current_page]
             ELSE LET current_page_index == IndexOf(pages, sr.current_page)
                      next == IF current_page_index + 1 <= Len(pages)
                              THEN pages[current_page_index + 1] ELSE pages[1]
                  IN  [sr |-> [sr EXCEPT !.current_page = next, !.current_match = 0],
                       page |-> next]
        ELSE IF sr.current_match > 0
             THEN [sr |-> [sr EXCEPT !.current_match = sr.current_match - 1],
                   page |-> sr.current_page]
             ELSE LET current_page_index == IndexOf(pages, sr.current_page)
                  IN  IF current_page_index > 1
                      THEN LET prev == pages[current_page_index - 1]
                           IN  [sr |-> [sr EXCEPT
                                          !.current_page = prev,
                                          !.current_match = Len(sr.results[prev]) - 1],
                                page |-> prev]
                      ELSE [sr |-> [sr EXCEPT !.current_page = pages[Len(pages)],
                                              !.current_match = 0],
                            page |-> pages[Len(pages)]]

(* SearchResult.navigate_to_match: the search result afterwards and the     *)
(* page index returned (-1 for None).                                       *)
NavigateToMatch(sr, forward) ==
    LET pages == SortedPages(sr)
    IN  IF ~HasResults(sr) \/ Len(pages) = 0 THEN [sr |-> sr, page |-> -1]
        ELSE IF sr.current_page < 0 \/ sr.current_match < 0
        THEN [sr |-> [sr EXCEPT !.current_page = pages[1], !.current_match = 0],
              page |-> pages[1]]
        ELSE IF forward
        THEN IF sr.current_match + 1 < Len(sr.results[sr.current_page])
             THEN [sr |-> [sr EXCEPT !.current_match = sr.current_match + 1],
                   page |-> sr.current_page]
             ELSE LET current_page_index == IndexOf(pages, sr.current_page)
                  IN  IF current_page_index + 1 <= Len(pages)
                      THEN [sr |-> [sr EXCEPT
                                      !.current_page = pages[current_page_index + 1],
                                      !.current_match = 0],
                            page |-> pages[current_page_index + 1]]
                      ELSE [sr |-> [sr EXCEPT !.current_page = pages[1],
                                              !.current_match = 0],
                            page |-> pages[1]]
        ELSE IF sr.current_match > 0
             THEN [sr |-> [sr EXCEPT !.current_match = sr.current_match - 1],
                   page |-> sr.current_page]
             ELSE LET current_page_index == IndexOf(pages, sr.current_page)
                      prev == IF current_page_index > 1
                              THEN pages[current_page_index - 1]
                              ELSE pages[Len(pages)]
                  IN  [sr |-> [sr EXCEPT !.current_page = prev,
                                         !.current_match = Len(sr.results[prev]) - 1],
                       page |-> prev]

\* search_text, lines 381-385: the loop over the pages, from page index i on
RECURSIVE ScanPages(_, _, _, _)
ScanPages(sr, pages, query, i) ==
    IF i >= Len(pages) THEN sr
    ELSE ScanPages(AddMatches(sr, i, SearchFor(pages[i + 1], query)), pages, query, i + 1)

\* PDFViewWidget.search_text
SearchText(wd, query, isCur) ==
    IF ~wd.doc.open \/ query = "" THEN [w |-> wd, ok |-> FALSE]
    ELSE LET cleared == [wd EXCEPT
                            !.search_results = [SearchReset EXCEPT !.query = query],
                            !.pixmap_cache = <<>>]
             scanned == ScanPages(cleared.search_results,
                                  SubSeq(wd.doc.pages, 1, wd.total_pages), query, 0)
         IN  IF HasResults(scanned)
             THEN LET nav == NavigateToMatch(scanned, TRUE)
                      found == [cleared EXCEPT !.search_results = nav.sr]
                  IN  [w |-> IF nav.page >= 0
                             THEN GotoPage(found, nav.page, isCur).w
                             ELSE found,
                       ok |-> TRUE]
             ELSE [w |-> DisplayPage([cleared EXCEPT !.search_results = scanned], isCur),
                   ok |-> FALSE]

\* PDFViewWidget.find_next
(* PDFViewWidget.search_text when the engine raises in load_page or          *)
(* search_for of page fail_at: the matches of the pages before it have been *)
(* added, the except branch prints the error and returns False.             *)
SearchTextFailing(wd, query, fail_at, isCur) ==
    IF ~wd.doc.open \/ query = "" THEN [w |-> wd, ok |-> FALSE]
    ELSE LET cleared == [wd EXCEPT
                            !.search_results = [SearchReset EXCEPT !.query = query],
                            !.pixmap_cache = <<>>]
             scanned == ScanPages(cleared.search_results,
                                  SubSeq(wd.doc.pages, 1, fail_at), query, 0)
         IN  [w |-> [cleared EXCEPT !.search_results = scanned], ok |-> FALSE]

FindNext(wd, forward, isCur) ==
    IF ~HasResults(wd.search_results) THEN [w |-> wd, ok |-> FALSE]
    ELSE LET nav == NavigateToMatch(wd.search_results, forward)
             moved == [wd EXCEPT !.search_results = nav.sr]
         IN  IF nav.page >= 0
             THEN [w |-> IF nav.page # wd.current_page
                         THEN GotoPage(moved, nav.page, isCur).w
                         ELSE DisplayPage([moved EXCEPT !.pixmap_cache = <<>>], isCur),
                   ok |-> TRUE]
             ELSE [w |-> moved, ok |-> FALSE]

----------------------------------------------------------------------------
(* Page mutations                                                           *)

\* range(a, b)
PyRange(a, b) == [i \in 1..(b - a) |-> a + i - 1]

\* the indices of a range other than skip
Except(indices, skip) == SelectSeq(indices, LAMBDA i : i # skip)

(* A document built by temp_doc.insert_pdf(self.doc, from_page=i,           *)
(* to_page=i) for the indices i of order, one after the other.              *)
CopyPages(pages, order) == [k \in 1..Len(order) |-> pages[order[k] + 1]]

\* delete_page with the cursor left where it was
KeepCurrentPage(wd) == wd

\* delete_page, lines 565-569: adjust current page index
AdjustCurrentPage(wd) ==
    IF wd.current_page >= wd.total_pages /\ wd.total_pages > 0
    THEN [wd EXCEPT !.current_page = wd.total_pages - 1]
    ELSE IF wd.total_pages = 0
    THEN [wd EXCEPT !.current_page = 0]
    ELSE wd

\* the deletion that does not mark the document modified
DeleteConfirmedUnmarked(wd, isCur) ==
    LET deleted == [wd EXCEPT
                        !.doc = OpenDoc(RemoveAt(wd.doc.pages, wd.current_page + 1)),
                        !.total_pages = wd.total_pages - 1,
                        !.pixmap_cache = <<>>]
    IN  [w |-> DisplayPage(AdjustCurrentPage(deleted), isCur), ok |-> TRUE]

\* delete_page, lines 554-574: the confirmed deletion
DeleteConfirmed(wd, isCur) ==
    LET deleted == [wd EXCEPT
                        !.doc = OpenDoc(RemoveAt(wd.doc.pages, wd.current_page + 1)),
                        !.total_pages = wd.total_pages - 1]
        marked == [MarkModified(deleted, TRUE, isCur) EXCEPT !.pixmap_cache = <<>>]
    IN  [w |-> DisplayPage(AdjustCurrentPage(marked), isCur), ok |-> TRUE]

\* delete_page refusing only a document without pages
DeletePageDownToNone(wd, reply, isCur) ==
    IF ~wd.doc.open \/ wd.total_pages < 1 THEN [w |-> wd, ok |-> FALSE]
    ELSE IF reply # "Yes" THEN [w |-> wd, ok |-> FALSE]
    ELSE DeleteConfirmed(wd, isCur)

\* PDFViewWidget.delete_page; reply is the answer to the confirmation
DeletePage(wd, reply, isCur) ==
    IF ~wd.doc.open \/ wd.total_pages <= 1 THEN [w |-> wd, ok |-> FALSE]
    ELSE IF reply # "Yes" THEN [w |-> wd, ok |-> FALSE]
    ELSE DeleteConfirmed(wd, isCur)

\* the tail of the move handlers with the cache left as it was
ReplaceDocKeepingCache(wd, pages, isCur) ==
    MarkModified([wd EXCEPT !.doc = OpenDoc(pages), !.total_pages = Len(pages)],
                 TRUE, isCur)

(* The tail shared by the three move handlers: replace the document by      *)
(* temp_doc, recount, mark modified, clear the cache.  temp_doc was opened  *)
(* and self.doc is closed, so the number of open handles stays.             *)
ReplaceDoc(wd, pages, isCur) ==
    [MarkModified([wd EXCEPT !.doc = OpenDoc(pages), !.total_pages = Len(pages)],
                  TRUE, isCur)
        EXCEPT !.pixmap_cache = <<>>]

\* move_current_page_up leaving the cursor on the index it was on
MoveCurrentPageUpStaying(wd, isCur) ==
    IF ~wd.doc.open \/ wd.current_page <= 0 THEN [w |-> wd, ok |-> FALSE]
    ELSE LET page_to_move == wd.current_page
             target_position == page_to_move - 1
             order == Except(PyRange(0, target_position), page_to_move)
                      \o <<page_to_move>>
                      \o Except(PyRange(target_position, wd.total_pages), page_to_move)
             replaced == ReplaceDoc(wd, CopyPages(wd.doc.pages, order), isCur)
         IN  [w |-> DisplayPage(replaced, isCur), ok |-> TRUE]

\* PDFViewWidget.move_current_page_up
MoveCurrentPageUp(wd, isCur) ==
    IF ~wd.doc.open \/ wd.current_page <= 0 THEN [w |-> wd, ok |-> FALSE]
    ELSE LET page_to_move == wd.current_page
             target_position == page_to_move - 1
             order == Except(PyRange(0, target_position), page_to_move)
                      \o <<page_to_move>>
                      \o Except(PyRange(target_position, wd.total_pages), page_to_move)
             replaced == ReplaceDoc(wd, CopyPages(wd.doc.pages, order), isCur)
         IN  [w |-> DisplayPage([replaced EXCEPT !.current_page = target_position], isCur),
              ok |-> TRUE]

\* PDFViewWidget.move_current_page_down
MoveCurrentPageDown(wd, isCur) ==
    IF ~wd.doc.open \/ wd.current_page >= wd.total_pages - 1 THEN [w |-> wd, ok |-> FALSE]
    ELSE LET page_to_move == wd.current_page
             target_position == page_to_move + 1
             order == PyRange(0, page_to_move)
                      \o <<target_position>>
                      \o <<page_to_move>>
                      \o PyRange(target_position + 1, wd.total_pages)
             replaced == ReplaceDoc(wd, CopyPages(wd.doc.pages, order), isCur)
         IN  [w |-> DisplayPage([replaced EXCEPT !.current_page = target_position], isCur),
              ok |-> TRUE]

\* the two pages exchanged instead of one moved
SwapOrder(from_index, to_index, total_pages) ==
    [k \in 1..total_pages |->
        IF k - 1 = from_index THEN to_index
        ELSE IF k - 1 = to_index THEN from_index
        ELSE k - 1]

\* move_page_to, lines 697-731: the indices copied into temp_doc, in order
MoveOrder(from_index, to_index, total_pages) ==
    IF from_index < to_index
    THEN PyRange(0, from_index)
         \o PyRange(from_index + 1, to_index + 1)
         \o <<from_index>>
         \o PyRange(to_index + 1, total_pages)
    ELSE PyRange(0, to_index)
         \o <<from_index>>
         \o PyRange(to_index, from_index)
         \o PyRange(from_index + 1, total_pages)

\* PDFViewWidget.move_page_to
MovePageTo(wd, from_index, to_index, isCur) ==
    IF ~wd.doc.open
       \/ ~(0 <= from_index /\ from_index < wd.total_pages)
       \/ ~(0 <= to_index /\ to_index < wd.total_pages)
    THEN [w |-> wd, ok |-> FALSE]
    ELSE IF from_index = to_index THEN [w |-> wd, ok |-> TRUE]
    ELSE LET order == MoveOrder(from_index, to_index, wd.total_pages)
             replaced == ReplaceDoc(wd, CopyPages(wd.doc.pages, order), isCur)
         IN  [w |-> DisplayPage(
                        IF replaced.current_page = from_index
                        THEN [replaced EXCEPT !.current_page = to_index]
                        ELSE replaced, isCur),
              ok |-> TRUE]

(* The except branch of the move handlers (lines 626-631, 679-684 and       *)
(* 753-758) when insert_pdf raises: temp_doc = fitz.open() has run, the     *)
(* error is printed and shown, False is returned.  No statement of the      *)
(* handler closes temp_doc.                                                 *)
MoveFailed(wd) == [w |-> [wd EXCEPT !.open_handles = @ + 1], ok |-> FALSE]

----------------------------------------------------------------------------
(* ThumbnailViewDialog                                                      *)

(* EnhancedListWidget.dropEvent: takeItem(source_index), then               *)
(* insertItem(drop_index, item); both are rows of the list.                 *)
DropMove(items, source_index, drop_index) ==
    InsertAt(RemoveAt(items, source_index + 1), drop_index + 1, items[source_index + 1])

\* the list orders one accepted drop can make of an order
Drops(items) ==
    UNION {{DropMove(items, s, d) : d \in (0..(Len(items) - 1)) \ {s}} :
                s \in 0..(Len(items) - 1)}

(* The orders the list can show once the Apply button is enabled: those     *)
(* reached from the listed rows by 1 to n accepted drops.                   *)
RECURSIVE OrdersAfter(_, _)
OrdersAfter(start, n) ==
    IF n = 0 THEN {}
    ELSE LET one == UNION {Drops(o) : o \in start}
         IN  one \cup OrdersAfter(one, n - 1)

(* load_thumbnails: the number of rows listed.  With more than 10 pages a   *)
(* progress dialog is shown and the user can cancel it before any page i.   *)
ListedRows(total_pages) ==
    IF total_pages > PROGRESS_THRESHOLD THEN 0..total_pages ELSE {total_pages}

\* an order that is never taken for the unchanged one
OrderNeverUnchanged(new_order) == FALSE

\* apply_changes, line 270: new_order == list(range(len(new_order)))
OrderUnchanged(new_order) == new_order = RangeList(Len(new_order))

\* apply_changes filling new_doc with page k put at index new_order[k]
ApplyChangesInverted(wd, new_order, isCur) ==
    IF OrderUnchanged(new_order) THEN [w |-> wd, ok |-> TRUE]
    ELSE LET n == Len(new_order)
             inverted == [k \in 1..n |->
                            IF \E j \in 1..n : new_order[j] = k - 1
                            THEN (CHOOSE j \in 1..n : new_order[j] = k - 1) - 1
                            ELSE new_order[k]]
             new_doc == CopyPages(wd.doc.pages, inverted)
             replaced == [wd EXCEPT
                            !.doc = OpenDoc(new_doc),
                            !.total_pages = Len(new_doc),
                            !.current_page = Min(wd.current_page, Len(new_doc) - 1),
                            !.pixmap_cache = <<>>]
         IN  [w |-> DisplayPage(MarkModified(replaced, TRUE, isCur), isCur), ok |-> TRUE]

(* ThumbnailViewDialog.apply_changes with the list showing new_order        *)
ApplyChanges(wd, new_order, isCur) ==
    IF OrderUnchanged(new_order) THEN [w |-> wd, ok |-> TRUE]
    ELSE LET new_doc == CopyPages(wd.doc.pages, new_order)
             replaced == [wd EXCEPT
                            !.doc = OpenDoc(new_doc),
                            !.total_pages = Len(new_doc),
                            !.current_page = Min(wd.current_page, Len(new_doc) - 1),
                            !.pixmap_cache = <<>>]
         IN  [w |-> DisplayPage(MarkModified(replaced, TRUE, isCur), isCur), ok |-> TRUE]

(* apply_changes, lines 274-305, when insert_pdf raises: new_doc =          *)
(* fitz.open() has run and no statement closes it; the widget is as it was. *)
ApplyChangesFailed(wd) == [wd EXCEPT !.open_handles = @ + 1]

----------------------------------------------------------------------------
(* Assembly: copying pages into the assembly document                       *)

\* the search for the assembly widget keeping the last tab that is one
FindAssemblyWidgetLast(ws, tb, w) ==
    IF w \in Range(tb) /\ \E i \in 1..Len(tb) : ws[tb[i]].is_assembly_target
    THEN tb[CHOOSE i \in 1..Len(tb) :
                /\ ws[tb[i]].is_assembly_target
                /\ \A j \in (i + 1)..Len(tb) : ~ws[tb[j]].is_assembly_target]
    ELSE 0

(* PDFViewWidget.find_assembly_widget called on widget w: the first tab, in *)
(* display order, whose widget is an assembly target; 0 when w has no tab   *)
(* widget above it or no tab is an assembly target.                         *)
FindAssemblyWidget(ws, tb, w) ==
    IF w \in Range(tb) /\ \E i \in 1..Len(tb) : ws[tb[i]].is_assembly_target
    THEN tb[CHOOSE i \in 1..Len(tb) :
                /\ ws[tb[i]].is_assembly_target
                /\ \A j \in 1..(i - 1) : ~ws[tb[j]].is_assembly_target]
    ELSE 0

\* the insert putting the new pages before the pages of the assembly
InsertIntoAssemblyAtFront(aw, new_pages, new_page_index, isCur) ==
    LET was_empty == aw.total_pages = 0
        target_doc == new_pages \o aw.doc.pages
        inserted == [aw EXCEPT !.doc = OpenDoc(target_doc),
                               !.total_pages = Len(target_doc)]
        moved == GotoPage(inserted, new_page_index, isCur).w
        refreshed == IF was_empty
                     THEN DisplayPage([moved EXCEPT !.pixmap_cache = <<>>], isCur)
                     ELSE moved
    IN  MarkModified(refreshed, TRUE, isCur)

(* add_current_page_to_assembly, lines 883-902, and                         *)
(* add_all_pages_to_assembly, lines 922-942, on the assembly widget:        *)
(* insert, recount, go to new_page_index, refresh a formerly empty          *)
(* document, mark modified.                                                 *)
InsertIntoAssembly(aw, new_pages, new_page_index, isCur) ==
    LET was_empty == aw.total_pages = 0
        target_doc == aw.doc.pages \o new_pages
        inserted == [aw EXCEPT !.doc = OpenDoc(target_doc),
                               !.total_pages = Len(target_doc)]
        moved == GotoPage(inserted, new_page_index, isCur).w
        refreshed == IF was_empty
                     THEN DisplayPage([moved EXCEPT !.pixmap_cache = <<>>], isCur)
                     ELSE moved
    IN  MarkModified(refreshed, TRUE, isCur)

----------------------------------------------------------------------------
(* State                                                                    *)

\* main_window.get_current_view_widget() is widget w
IsCurrent(w) == current # 0 /\ tabs[current] = w

\* the handler returned; ok is the value it returned
Done(op, w, ok) == [op |-> op, w |-> w, ok |-> ok, raised |-> FALSE]

\* the handler did not return: an exception left it
Raised(op, w) == [op |-> op, w |-> w, ok |-> FALSE, raised |-> TRUE]

TabIndexOf(tb, w) == CHOOSE i \in 1..Len(tb) : tb[i] = w

(* QTabWidget.setCurrentIndex and setCurrentWidget: currentChanged calls   *)
(* update_ui_for_current_tab, which reads the page info of the new tab.     *)
WithCurrent(ws, w) == [ws EXCEPT ![w] = GetCurrentPageInfo(ws[w])]

\* PDFViewer.__init__: the main window with no tab
Init ==
    /\ widgets = <<>>
    /\ tabs = <<>>
    /\ current = 0
    /\ last = Done("init", 0, TRUE)

\* PDFViewWidget(): a widget constructed on its own, in no tab widget
InitWidget ==
    /\ widgets = <<NewWidget(FALSE)>>
    /\ tabs = <<>>
    /\ current = 0
    /\ last = Done("init", 0, TRUE)

----------------------------------------------------------------------------
(* Handlers of a PDFViewWidget.  Each applies the method to widget w and    *)
(* records the value returned.                                              *)

\* a handler whose widget shares its pixmap cache with the other widgets
ApplySharingCache(op, w, r) ==
    /\ widgets' = [o \in DOMAIN widgets |->
                    IF o = w THEN r.w
                    ELSE [AgedWidget(widgets[o]) EXCEPT !.pixmap_cache = r.w.pixmap_cache]]
    /\ UNCHANGED <<tabs, current>>
    /\ last' = Done(op, w, r.ok)

Apply(op, w, r) ==
    /\ widgets' = [Aged(widgets) EXCEPT ![w] = r.w]
    /\ UNCHANGED <<tabs, current>>
    /\ last' = Done(op, w, r.ok)

DoLoadPdf(w, path) ==
    Apply("load_pdf", w, LoadPdf(AgedWidget(widgets[w]), path, IsCurrent(w)))

DoCloseDocument(w) ==
    Apply("close_document", w,
          [w |-> CloseDocument(AgedWidget(widgets[w])), ok |-> widgets[w].doc.open])

DoGotoPage(w, page_index) ==
    Apply("goto_page", w, GotoPage(AgedWidget(widgets[w]), page_index, IsCurrent(w)))

DoNextPage(w) ==
    Apply("next_page", w, NextPage(AgedWidget(widgets[w]), IsCurrent(w)))

DoPrevPage(w) ==
    Apply("prev_page", w, PrevPage(AgedWidget(widgets[w]), IsCurrent(w)))

DoApplyZoom(w, factor) ==
    Apply("apply_zoom", w, ApplyZoom(AgedWidget(widgets[w]), factor, IsCurrent(w)))

DoSearchText(w, query) ==
    Apply("search_text", w, SearchText(AgedWidget(widgets[w]), query, IsCurrent(w)))

DoSearchTextFailing(w, query, fail_at) ==
    /\ fail_at < widgets[w].total_pages
    /\ Apply("search_text", w,
             SearchTextFailing(AgedWidget(widgets[w]), query, fail_at, IsCurrent(w)))

DoFindNext(w, forward) ==
    Apply("find_next", w, FindNext(AgedWidget(widgets[w]), forward, IsCurrent(w)))

DoDeletePage(w, reply) ==
    Apply("delete_page", w, DeletePage(AgedWidget(widgets[w]), reply, IsCurrent(w)))

DoMoveCurrentPageUp(w) ==
    Apply("move_current_page_up", w,
          MoveCurrentPageUp(AgedWidget(widgets[w]), IsCurrent(w)))

DoMoveCurrentPageDown(w) ==
    Apply("move_current_page_down", w,
          MoveCurrentPageDown(AgedWidget(widgets[w]), IsCurrent(w)))

DoMovePageTo(w, from_index, to_index) ==
    Apply("move_page_to", w,
          MovePageTo(AgedWidget(widgets[w]), from_index, to_index, IsCurrent(w)))

\* the number of drags followed: MaxLongDrops on a document of more than
\* MaxPages pages, MaxDrops otherwise
DropBound(total_pages) ==
    IF total_pages > MaxPages THEN MaxLongDrops ELSE MaxDrops

(* ThumbnailViewDialog on widget w: the orders the user can press Apply on. *)
(* load_thumbnails lists nothing without a document.                        *)
\* the orders of a dialog that lists rows thumbnails, for every number of rows
OrdersOfRows ==
    [total_pages \in 0..(CACHE_LIMIT + 1) |->
        [rows \in 0..total_pages |->
            OrdersAfter({RangeList(rows)}, DropBound(total_pages))]]

DialogOrders(wd) ==
    IF wd.doc.open
    THEN UNION {OrdersOfRows[wd.total_pages][rows] : rows \in ListedRows(wd.total_pages)}
    ELSE {}

(* PDFViewer.show_reorder_dialog: the dialog is modal, the user drags the   *)
(* thumbnails into new_order and presses Apply.                             *)
DoApplyChanges(w, new_order) ==
    Apply("apply_changes", w,
          ApplyChanges(AgedWidget(widgets[w]), new_order, IsCurrent(w)))

ReorderDialog(w) ==
    \E new_order \in DialogOrders(widgets[w]) : DoApplyChanges(w, new_order)

\* save_as keeping the document an assembly target
SaveAsStillTarget(wd, save_path, saved, isCur) ==
    IF ~wd.doc.open \/ save_path = "" \/ ~saved THEN [w |-> wd, ok |-> FALSE]
    ELSE [w |-> MarkModified([wd EXCEPT !.current_filepath = save_path,
                                        !.saved_pages = wd.doc.pages],
                             FALSE, isCur),
          ok |-> TRUE]

\* save_as clearing the modified flag of a save that was cancelled or failed
SaveAsClearingAnyway(wd, save_path, saved, isCur) ==
    IF ~wd.doc.open THEN [w |-> wd, ok |-> FALSE]
    ELSE IF save_path = "" \/ ~saved
    THEN [w |-> MarkModified(wd, FALSE, isCur), ok |-> FALSE]
    ELSE [w |-> MarkModified([wd EXCEPT !.current_filepath = save_path,
                                        !.saved_pages = wd.doc.pages,
                                        !.is_assembly_target = FALSE],
                             FALSE, isCur),
          ok |-> TRUE]

\* PDFViewWidget.save_as; save_path "" is a cancelled file dialog
SaveAs(wd, save_path, saved, isCur) ==
    IF ~wd.doc.open \/ save_path = "" \/ ~saved THEN [w |-> wd, ok |-> FALSE]
    ELSE [w |-> MarkModified([wd EXCEPT !.current_filepath = save_path,
                                        !.saved_pages = wd.doc.pages,
                                        !.is_assembly_target = FALSE],
                             FALSE, isCur),
          ok |-> TRUE]

DoSaveAs(w, save_path, saved) ==
    Apply("save_as", w, SaveAs(AgedWidget(widgets[w]), save_path, saved, IsCurrent(w)))

(* PDFViewer.save_current_document on the current widget wd: a modified     *)
(* document with a path of its own is written to that path, one without is  *)
(* handed to save_as; saved is whether the engine wrote the file.           *)
SaveCurrentDocument(wd, save_path, saved, isCur) ==
    IF ~wd.is_modified THEN [w |-> wd, ok |-> FALSE]
    ELSE IF wd.current_filepath # "" /\ wd.current_filepath # "assembly:/"
    THEN IF saved
         THEN [w |-> MarkModified([wd EXCEPT !.saved_pages = wd.doc.pages], FALSE, isCur),
               ok |-> TRUE]
         ELSE [w |-> wd, ok |-> FALSE]
    ELSE SaveAs(wd, save_path, saved, isCur)

DoSaveCurrentDocument(w, save_path, saved) ==
    Apply("save_current_document", w,
          SaveCurrentDocument(AgedWidget(widgets[w]), save_path, saved, IsCurrent(w)))

----------------------------------------------------------------------------
(* Handlers of the main window                                              *)

\* open_files without the search for a tab that shows the file already
OpenFilesAgain(file_path) ==
    /\ Len(widgets) < MaxWidgets
    /\ LET id == Len(widgets) + 1
           r == LoadPdf(NewWidget(FALSE), file_path, FALSE)
       IN  IF r.ok
           THEN /\ widgets' = Append(Aged(widgets), GetCurrentPageInfo(r.w))
                /\ tabs' = Append(tabs, id)
                /\ current' = Len(tabs) + 1
                /\ last' = Done("open_files", id, TRUE)
           ELSE /\ widgets' = Aged(widgets)
                /\ UNCHANGED <<tabs, current>>
                /\ last' = Done("open_files", 0, FALSE)

\* PDFViewer.open_files with one file picked
OpenFiles(file_path) ==
    LET already == {i \in 1..Len(tabs) : widgets[tabs[i]].current_filepath = file_path}
    IN  IF already # {}
        THEN LET already_open_index == CHOOSE i \in already : \A j \in already : i <= j
             IN  /\ widgets' = WithCurrent(Aged(widgets), tabs[already_open_index])
                 /\ current' = already_open_index
                 /\ UNCHANGED tabs
                 /\ last' = Done("open_files", tabs[already_open_index], FALSE)
        ELSE /\ Len(widgets) < MaxWidgets
             /\ LET id == Len(widgets) + 1
                    r == LoadPdf(NewWidget(FALSE), file_path, FALSE)
                IN  IF r.ok
                    THEN /\ widgets' = Append(Aged(widgets), GetCurrentPageInfo(r.w))
                         /\ tabs' = Append(tabs, id)
                         /\ current' = Len(tabs) + 1
                         /\ last' = Done("open_files", id, TRUE)
                    ELSE /\ widgets' = Aged(widgets)
                         /\ UNCHANGED <<tabs, current>>
                         /\ last' = Done("open_files", 0, FALSE)

\* PDFViewer.create_new_assembly_tab
CreateNewAssemblyTab ==
    /\ Len(widgets) < MaxWidgets
    /\ LET id == Len(widgets) + 1
       IN  /\ widgets' = Append(Aged(widgets),
                                GetCurrentPageInfo(SetupAssemblyDoc(NewWidget(TRUE), "assembly:/")))
           /\ tabs' = Append(tabs, id)
           /\ current' = Len(tabs) + 1
           /\ last' = Done("create_new_assembly_tab", id, TRUE)

\* the user selects tab index: QTabWidget.currentChanged
SelectTab(index) ==
    /\ index \in 1..Len(tabs)
    /\ index # current
    /\ widgets' = WithCurrent(Aged(widgets), tabs[index])
    /\ current' = index
    /\ UNCHANGED tabs
    /\ last' = Done("select_tab", tabs[index], TRUE)

(* QTabWidget.removeTab(index): the current index afterwards.  Removing the *)
(* current tab selects the tab to its right, or the last tab.               *)
CurrentAfterRemove(n, cur, index) ==
    IF index < cur THEN cur - 1
    ELSE IF index > cur THEN cur
    ELSE IF index < n THEN index
    ELSE n - 1

(* The widget ids of the tabs once widget w is gone: the widgets after it   *)
(* move down by one.                                                        *)
TabsWithout(tb, index, w) ==
    LET rest == RemoveAt(tb, index)
    IN  [i \in 1..Len(rest) |-> IF rest[i] > w THEN rest[i] - 1 ELSE rest[i]]

(* PDFViewer.close_tab(index): reply answers the unsaved-changes question,  *)
(* save_path and saved are the outcome of the save it may start.  A closed  *)
(* widget is removed from the tab widget and is not used again.             *)
CloseTab(index, reply, save_path, saved) ==
    /\ index \in 1..Len(tabs)
    /\ LET w == tabs[index]
           wd == AgedWidget(widgets[w])
           asked == wd.is_modified
           r == IF asked /\ reply = "Save"
                THEN SaveAs(wd, save_path, saved, IsCurrent(w))
                ELSE [w |-> wd, ok |-> TRUE]
           stays == asked /\ (reply = "Cancel" \/ (reply = "Save" /\ ~r.ok))
       IN  /\ asked \/ reply = "Discard"
           /\ (asked /\ reply = "Save") \/ (save_path = "" /\ saved)
           /\ IF stays
              THEN /\ widgets' = [Aged(widgets) EXCEPT ![w] = r.w]
                   /\ UNCHANGED <<tabs, current>>
                   /\ last' = Done("close_tab", w, FALSE)
              ELSE LET cur == CurrentAfterRemove(Len(tabs), current, index)
                       tb == TabsWithout(tabs, index, w)
                       rest == RemoveAt(Aged(widgets), w)
                   IN  /\ tabs' = tb
                       /\ current' = cur
                       /\ widgets' = IF cur # 0 THEN WithCurrent(rest, tb[cur]) ELSE rest
                       /\ last' = Done("close_tab", 0, TRUE)

\* a transplant that also takes the source back to its first page
SourceAfterInsertRewound(src, aw, isCur) ==
    [src EXCEPT !.current_page = 0]

(* The source widget of a transplant: mark_modified(True) on the assembly   *)
(* widget, when it changes the flag, calls update_button_states, which      *)
(* reads the page info of the current tab, the source.                      *)
SourceAfterInsert(src, aw, isCur) ==
    IF isCur /\ ~aw.is_modified THEN GetCurrentPageInfo(src) ELSE src

(* PDFViewWidget.add_current_page_to_assembly (all = FALSE) and             *)
(* add_all_pages_to_assembly (all = TRUE), the context-menu handlers of a   *)
(* widget that is not itself an assembly target.                            *)
AddToAssemblyUpTo(w, all, cap) ==
    LET op == IF all THEN "add_all_pages_to_assembly" ELSE "add_current_page_to_assembly"
        src == widgets[w]
        a == FindAssemblyWidget(widgets, tabs, w)
        able == /\ a # 0
                /\ src.doc.open
                /\ IF all THEN src.total_pages > 0
                   ELSE 0 <= src.current_page /\ src.current_page < src.total_pages
    IN  /\ ~src.is_assembly_target
        /\ IF able /\ widgets[a].doc.open
           THEN LET aw == AgedWidget(widgets[a])
                    new_pages == IF all THEN src.doc.pages
                                 ELSE <<src.doc.pages[src.current_page + 1]>>
                    new_page_index == IF all THEN aw.total_pages
                                      ELSE aw.total_pages + Len(new_pages) - 1
                IN  /\ Len(aw.doc.pages) + Len(new_pages) <= cap
                    /\ widgets' = WithCurrent(
                            [Aged(widgets) EXCEPT
                                ![w] = SourceAfterInsert(AgedWidget(src), aw, IsCurrent(w)),
                                ![a] = InsertIntoAssembly(aw, new_pages, new_page_index,
                                                          IsCurrent(a))], a)
                    /\ current' = TabIndexOf(tabs, a)
                    /\ UNCHANGED tabs
                    /\ last' = Done(op, a, TRUE)
           ELSE /\ widgets' = Aged(widgets)
                /\ UNCHANGED <<tabs, current>>
                /\ last' = Done(op, 0, FALSE)

\* the handlers, with the assembly document kept to MaxAsmPages pages
AddToAssembly(w, all) == AddToAssemblyUpTo(w, all, MaxAsmPages)

----------------------------------------------------------------------------
(* Inputs                                                                   *)

Replies == {"Yes", "No"}
CloseReplies == {"Save", "Discard", "Cancel"}
SavePaths == {"", "S"}

\* page indices: every index of the largest document and one beyond each end
PageInputs == -1..MaxPages

(* move_page_to arguments: every pair of indices of the largest document,   *)
(* and one pair reaching beyond each end                                    *)
MoveInputs ==
    ((0..(MaxPages - 1)) \X (0..(MaxPages - 1))) \cup {<<-1, 0>>, <<0, MaxPages>>}

(* zoom factors in thousandths: a negative one, none, one below the range,  *)
(* its lower end, the default, one 0.005 and one 0.02 above the default,    *)
(* 1.5, the upper end of the range and one above it.  No two of them are    *)
(* exactly 0.01 apart.                                                      *)
ZoomInputs == {-500, 0, 50, 100, 1000, 1005, 1020, 1500, 5000, 6000}

----------------------------------------------------------------------------
(* Spec: one PDFViewWidget driven through its methods, on the small file    *)

Navigate(w) ==
    \/ \E i \in PageInputs : DoGotoPage(w, i)
    \/ DoNextPage(w)
    \/ DoPrevPage(w)

Mutate(w) ==
    \/ \E reply \in Replies : DoDeletePage(w, reply)
    \/ DoMoveCurrentPageUp(w)
    \/ DoMoveCurrentPageDown(w)
    \/ \E m \in MoveInputs : DoMovePageTo(w, m[1], m[2])
    \/ ReorderDialog(w)

Next ==
    \/ \E path \in {"A", "X"} : DoLoadPdf(1, path)
    \/ DoCloseDocument(1)
    \/ Navigate(1)
    \/ Mutate(1)

Spec == InitWidget /\ [][Next]_vars

----------------------------------------------------------------------------
(* SpecCache: one PDFViewWidget on the long file, whose pages outnumber the *)
(* pixmap cache.  The user pages through it with Next, Previous, Home and   *)
(* End (PDFViewer.goto_first_page, goto_last_page), zooms, searches and     *)
(* deletes pages.                                                           *)

NavigateLong(w) ==
    \/ DoGotoPage(w, 0)
    \/ DoNextPage(w)

NextCache ==
    \/ DoLoadPdf(1, "L")
    \/ NavigateLong(1)
    \/ \E f \in {1000, 1500} : DoApplyZoom(1, f)
    \/ DoSearchText(1, "foo")
    \/ \E fwd \in BOOLEAN : DoFindNext(1, fwd)
    \/ DoDeletePage(1, "Yes")

SpecCache == InitWidget /\ [][NextCache]_vars

----------------------------------------------------------------------------
(* SpecSet: the main window.  The user opens files, creates assembly        *)
(* documents, switches and closes tabs, and works on the document of the    *)
(* current tab: navigation, page mutations, copying to the assembly.        *)

OnCurrentTab(w) ==
    \/ Navigate(w)
    \/ Mutate(w)
    \/ \E all \in BOOLEAN : AddToAssembly(w, all)

NextSet ==
    \/ \E path \in {"B", "X"} : OpenFiles(path)
    \/ CreateNewAssemblyTab
    \/ \E i \in 1..MaxWidgets : SelectTab(i)
    \/ \E i \in 1..MaxWidgets, reply \in CloseReplies, path \in SavePaths, saved \in BOOLEAN :
            CloseTab(i, reply, path, saved)
    \/ current # 0 /\ OnCurrentTab(tabs[current])

SpecSet == Init /\ [][NextSet]_vars

----------------------------------------------------------------------------
(* SpecAsm: the main window after the user opened the two-page file and     *)
(* created an assembly document.  The user pages through the file and       *)
(* copies pages of it to the assembly document, which they page through,    *)
(* zoom and edit.                                                           *)

InitAsm ==
    /\ widgets = <<AgedWidget(LoadPdf(NewWidget(FALSE), "B", FALSE).w),
                   SetupAssemblyDoc(NewWidget(TRUE), "assembly:/")>>
    /\ tabs = <<1, 2>>
    /\ current = 2
    /\ last = Done("create_new_assembly_tab", 2, TRUE)

OnSourceTab(w) ==
    \/ DoNextPage(w)
    \/ DoPrevPage(w)
    \/ \E all \in BOOLEAN : AddToAssembly(w, all)

OnAssemblyTab(w) ==
    \/ DoNextPage(w)
    \/ DoPrevPage(w)
    \/ \E f \in {1000, 1500} : DoApplyZoom(w, f)
    \/ Mutate(w)

NextAsm ==
    \/ \E i \in 1..2 : SelectTab(i)
    \/ ~widgets[tabs[current]].is_assembly_target /\ OnSourceTab(tabs[current])
    \/ widgets[tabs[current]].is_assembly_target /\ OnAssemblyTab(tabs[current])

SpecAsm == InitAsm /\ [][NextAsm]_vars

----------------------------------------------------------------------------
(* SpecReorder: the reorder dialog on the long file, whose thumbnail        *)
(* loading shows a progress dialog the user may cancel.                     *)

NextReorder ==
    \/ DoLoadPdf(1, "L")
    \/ DoGotoPage(1, CACHE_LIMIT)
    \/ ReorderDialog(1)

SpecReorder == InitWidget /\ [][NextReorder]_vars

----------------------------------------------------------------------------
(* SpecSearch: one widget on the small file, searched and stepped through   *)
(* its matches, with the page navigation and the zoom of the toolbar in     *)
(* between.                                                                 *)

NextSearch ==
    \/ DoLoadPdf(1, "A")
    \/ \E query \in Queries : DoSearchText(1, query)
    \/ \E forward \in BOOLEAN : DoFindNext(1, forward)
    \/ DoNextPage(1)
    \/ DoPrevPage(1)
    \/ \E factor \in {1000, 1500} : DoApplyZoom(1, factor)

SpecSearch == InitWidget /\ [][NextSearch]_vars

(* SpecSearchEdit: the same with pages being deleted, and without the zoom. *)

NextSearchEdit ==
    \/ DoLoadPdf(1, "A")
    \/ \E query \in Queries : DoSearchText(1, query)
    \/ \E forward \in BOOLEAN : DoFindNext(1, forward)
    \/ DoNextPage(1)
    \/ DoPrevPage(1)
    \/ DoDeletePage(1, "Yes")

SpecSearchEdit == InitWidget /\ [][NextSearchEdit]_vars

----------------------------------------------------------------------------
(* SpecEngine: one widget on the small file, with the engine raising in     *)
(* insert_pdf at times while a handler rebuilds the document.  A handler    *)
(* whose engine call raises has passed the guards before its try block.     *)
(* Failures are followed while fewer than MaxHandles handles are open.      *)

DoMovePageToFailing(w, from_index, to_index) ==
    /\ widgets[w].doc.open
    /\ 0 <= from_index /\ from_index < widgets[w].total_pages
    /\ 0 <= to_index /\ to_index < widgets[w].total_pages
    /\ from_index # to_index
    /\ widgets[w].open_handles < MaxHandles
    /\ Apply("move_page_to", w, MoveFailed(AgedWidget(widgets[w])))

DoMoveCurrentPageDownFailing(w) ==
    /\ widgets[w].doc.open
    /\ widgets[w].current_page < widgets[w].total_pages - 1
    /\ widgets[w].open_handles < MaxHandles
    /\ Apply("move_current_page_down", w, MoveFailed(AgedWidget(widgets[w])))

(* apply_changes with insert_pdf raising: the except branch (lines 303-305) *)
(* names QMessageBox, which thumbnail.py does not import (lines 1-13), so a *)
(* NameError leaves the handler.                                            *)
DoApplyChangesFailing(w, new_order) ==
    /\ ~OrderUnchanged(new_order)
    /\ widgets[w].open_handles < MaxHandles
    /\ widgets' = [Aged(widgets) EXCEPT ![w] = ApplyChangesFailed(AgedWidget(widgets[w]))]
    /\ UNCHANGED <<tabs, current>>
    /\ last' = Raised("apply_changes", w)

\* the reorder dialog with the engine raising when Apply is pressed
ReorderDialogFailing(w) ==
    \E new_order \in DialogOrders(widgets[w]) : DoApplyChangesFailing(w, new_order)

NextEngine ==
    \/ \E path \in {"A", "X"} : DoLoadPdf(1, path)
    \/ DoCloseDocument(1)
    \/ DoNextPage(1)
    \/ DoMoveCurrentPageDown(1)
    \/ \E m \in MoveInputs : DoMovePageTo(1, m[1], m[2])
    \/ ReorderDialog(1)
    \/ DoMoveCurrentPageDownFailing(1)
    \/ \E m \in MoveInputs : DoMovePageToFailing(1, m[1], m[2])
    \/ ReorderDialogFailing(1)

SpecEngine == InitWidget /\ [][NextEngine]_vars

----------------------------------------------------------------------------
(* SpecRender: the main window with the two-page file and an assembly       *)
(* document, display_page followed statement by statement.  A handler of    *)
(* the widget runs up to its call of display_page; the call sets the flag,  *)
(* runs the try block, with the engine rendering or raising, then the       *)
(* finally block and the refresh of the main window.  While the try block   *)
(* or the finally block of a widget is pending, display_page may be called  *)
(* on the widget again.  The user selects a tab between handlers only.      *)

Idle(w) == widgets[w].display_at = "idle"

\* the handler has made prepared of the widget and calls display_page
BeginDisplayPage(op, w, prepared) ==
    /\ widgets' = [Aged(widgets) EXCEPT ![w] = DisplayEnter(prepared)]
    /\ UNCHANGED <<tabs, current>>
    /\ last' = Done(op, w, TRUE)

\* next_page up to the try block of display_page
CallNextPage(w) ==
    /\ Idle(w)
    /\ widgets[w].doc.open
    /\ widgets[w].current_page < widgets[w].total_pages - 1
    /\ BeginDisplayPage("next_page", w,
            [AgedWidget(widgets[w]) EXCEPT !.current_page = @ + 1])

\* prev_page up to the try block of display_page
CallPrevPage(w) ==
    /\ Idle(w)
    /\ widgets[w].doc.open
    /\ widgets[w].current_page > 0
    /\ BeginDisplayPage("prev_page", w,
            [AgedWidget(widgets[w]) EXCEPT !.current_page = @ - 1])

\* apply_zoom up to the try block of display_page
CallApplyZoom(w, factor) ==
    /\ Idle(w)
    /\ widgets[w].doc.open
    /\ factor > 0
    /\ LET clamped == Max(ZOOM_MIN, Min(factor, ZOOM_MAX))
       IN  /\ Abs(widgets[w].zoom_factor - clamped) > ZOOM_EPSILON
           /\ BeginDisplayPage("apply_zoom", w,
                [AgedWidget(widgets[w]) EXCEPT !.zoom_factor = clamped,
                                               !.pixmap_cache = <<>>])

\* display_page called on a widget whose display_page has not returned
NestedDisplayPage(w) ==
    /\ widgets[w].display_at \in {"try", "finally"}
    /\ widgets' = [widgets EXCEPT ![w] = DisplayEnter(widgets[w])]
    /\ UNCHANGED <<tabs, current>>
    /\ last' = Done("display_page", w, FALSE)

\* the try block of display_page, to its end or to an early return
RenderTry(w, engine_ok) ==
    /\ widgets[w].display_at = "try"
    /\ widgets' = [widgets EXCEPT ![w] =
                        [(IF engine_ok THEN DisplayBody(widgets[w])
                          ELSE DisplayBodyFailing(widgets[w]))
                            EXCEPT !.display_at = "finally"]]
    /\ UNCHANGED <<tabs, current>>
    /\ last' = Done("display_page_try", w, engine_ok)

\* the finally block of display_page, up to the call of the main window
RenderFinally(w) ==
    /\ widgets[w].display_at = "finally"
    /\ widgets' = [widgets EXCEPT ![w] = DisplayLeave(widgets[w], IsCurrent(w))]
    /\ UNCHANGED <<tabs, current>>
    /\ last' = Done("display_page_finally", w, TRUE)

(* update_ui_for_current_tab called by the finally block: it reads the page *)
(* info of the widget and sets labels and buttons; it calls no handler of   *)
(* the widget.                                                              *)
RenderRefresh(w) ==
    /\ widgets[w].display_at = "refresh"
    /\ widgets' = [widgets EXCEPT ![w] =
                        [GetCurrentPageInfo(widgets[w]) EXCEPT !.display_at = "idle"]]
    /\ UNCHANGED <<tabs, current>>
    /\ last' = Done("update_ui_for_current_tab", w, TRUE)

\* the user selects a tab: no handler is running
SelectTabIdle(index) ==
    /\ \A w \in DOMAIN widgets : Idle(w)
    /\ SelectTab(index)

NextRender ==
    \/ \E i \in 1..2 : SelectTabIdle(i)
    \/ \E w \in 1..2 : CallNextPage(w)
    \/ \E w \in 1..2 : CallPrevPage(w)
    \/ \E w \in 1..2, factor \in {1000, 1500} : CallApplyZoom(w, factor)
    \/ \E w \in 1..2 : NestedDisplayPage(w)
    \/ \E w \in 1..2, engine_ok \in BOOLEAN : RenderTry(w, engine_ok)
    \/ \E w \in 1..2 : RenderFinally(w)
    \/ \E w \in 1..2 : RenderRefresh(w)

SpecRender == InitAsm /\ [][NextRender]_vars

----------------------------------------------------------------------------
(* SpecOpen: the main window in which the user opens files, one at a time,  *)
(* the small file, the two-page file and a file that is not a PDF, makes    *)
(* assembly tabs, selects and closes tabs, and pages through and deletes    *)
(* pages of the document of the current tab.                                *)

OpenPaths == {"A", "B", "X"}

NextOpen ==
    \/ \E path \in OpenPaths : OpenFiles(path)
    \/ CreateNewAssemblyTab
    \/ \E i \in 1..MaxWidgets : SelectTab(i)
    \/ \E i \in 1..MaxWidgets, reply \in CloseReplies, path \in SavePaths, saved \in BOOLEAN :
            CloseTab(i, reply, path, saved)
    \/ current # 0 /\ DoNextPage(tabs[current])
    \/ current # 0 /\ DoDeletePage(tabs[current], "Yes")

SpecOpen == Init /\ [][NextOpen]_vars

----------------------------------------------------------------------------
(* SpecNav: one widget on the small file, paged through and its pages moved *)
(* with every index of the document and indices beyond both ends.           *)

NextNav ==
    \/ \E path \in {"A", "X"} : DoLoadPdf(1, path)
    \/ DoCloseDocument(1)
    \/ \E i \in PageInputs : DoGotoPage(1, i)
    \/ DoNextPage(1)
    \/ DoPrevPage(1)
    \/ DoMoveCurrentPageUp(1)
    \/ DoMoveCurrentPageDown(1)
    \/ \E m \in MoveInputs : DoMovePageTo(1, m[1], m[2])

SpecNav == InitWidget /\ [][NextNav]_vars

----------------------------------------------------------------------------
(* SpecZoom: the main window in which the user opens the small file, makes  *)
(* an assembly tab, selects and closes tabs, pages through the document of  *)
(* the current tab, and apply_zoom is called on it with factors inside,     *)
(* below and above the range, zero and negative ones.                       *)

NextZoom ==
    \/ \E path \in {"A", "X"} : OpenFiles(path)
    \/ CreateNewAssemblyTab
    \/ \E i \in 1..MaxWidgets : SelectTab(i)
    \/ \E i \in 1..MaxWidgets : CloseTab(i, "Discard", "", TRUE)
    \/ current # 0 /\ DoNextPage(tabs[current])
    \/ current # 0 /\ \E factor \in ZoomInputs : DoApplyZoom(tabs[current], factor)

SpecZoom == Init /\ [][NextZoom]_vars

----------------------------------------------------------------------------
(* SpecFrame: a main window with three tabs.  The first holds the small     *)
(* file, which the user has zoomed and searched, stepping through none, one *)
(* or two of the matches; the second, the current one, holds the file of    *)
(* two pages and the third an assembly document.  The user pages through    *)
(* the document of the current tab, zooms it, searches it, deletes its      *)
(* pages and copies its current page to the assembly document, which then   *)
(* becomes the current tab.                                                 *)

SearchedDocs ==
    LET opened == GetCurrentPageInfo(LoadPdf(NewWidget(FALSE), "A", FALSE).w)
        zoomed == ApplyZoom(AgedWidget(opened), 1500, TRUE).w
        searched == SearchText(AgedWidget(zoomed), "foo", TRUE).w
        once == FindNext(AgedWidget(searched), TRUE, TRUE).w
        twice == FindNext(AgedWidget(once), TRUE, TRUE).w
    IN  {searched, once, twice}

InitFrame ==
    /\ widgets \in {<<AgedWidget(wd),
                      AgedWidget(LoadPdf(NewWidget(FALSE), "B", FALSE).w),
                      AgedWidget(SetupAssemblyDoc(NewWidget(TRUE), "assembly:/"))>> :
                    wd \in SearchedDocs}
    /\ tabs = <<1, 2, 3>>
    /\ current = 2
    /\ last = Done("select_tab", 2, TRUE)

NextFrame ==
    \/ \E i \in PageInputs : DoGotoPage(tabs[current], i)
    \/ DoNextPage(tabs[current])
    \/ DoPrevPage(tabs[current])
    \/ \E factor \in {1000, 1500} : DoApplyZoom(tabs[current], factor)
    \/ \E query \in {"", "foo"} : DoSearchText(tabs[current], query)
    \/ \E forward \in BOOLEAN : DoFindNext(tabs[current], forward)
    \/ DoDeletePage(tabs[current], "Yes")
    \/ AddToAssembly(tabs[current], FALSE)

SpecFrame == InitFrame /\ [][NextFrame]_vars

----------------------------------------------------------------------------
(* SpecSearchFail: one widget on the small file, searched with the engine   *)
(* working and with the engine raising at any one page of the scan, and     *)
(* stepped through the matches and the pages; the document can be closed    *)
(* and loaded again.                                                        *)

NextSearchFail ==
    \/ DoLoadPdf(1, "A")
    \/ DoCloseDocument(1)
    \/ \E query \in Queries : DoSearchText(1, query)
    \/ \E query \in Queries, fail_at \in 0..(MaxPages - 1) :
            DoSearchTextFailing(1, query, fail_at)
    \/ \E forward \in BOOLEAN : DoFindNext(1, forward)
    \/ DoNextPage(1)
    \/ DoPrevPage(1)

SpecSearchFail == InitWidget /\ [][NextSearchFail]_vars

----------------------------------------------------------------------------
(* SpecClose: the main window in which the user opens the file of two      *)
(* pages, makes assembly tabs, deletes pages of the document of the         *)
(* current tab, copies them to the assembly document, closes tabs,          *)
(* answering the question about unsaved changes and the save dialog in      *)
(* every way, and closes the window.  Once the window has closed no handler *)
(* runs.                                                                    *)

\* the main window has not accepted a close event
WindowOpen == ~(last.op = "close_event" /\ last.ok)

\* closeEvent closing every document without asking
CloseEventQuitting(reply) ==
    /\ WindowOpen
    /\ widgets' = [w \in DOMAIN widgets |-> CloseDocument(AgedWidget(widgets[w]))]
    /\ UNCHANGED <<tabs, current>>
    /\ last' = Done("close_event", 0, TRUE)

(* PDFViewer.closeEvent: reply answers 'Quit without saving?', asked when   *)
(* the document of some tab is modified.  On No the event is ignored and    *)
(* the first modified tab selected; otherwise the document of every tab is  *)
(* closed and the event accepted.                                           *)
CloseEvent(reply) ==
    /\ WindowOpen
    /\ LET modified_tabs_indices == {i \in 1..Len(tabs) : widgets[tabs[i]].is_modified}
       IN  /\ modified_tabs_indices = {} => reply = "Yes"
           /\ IF modified_tabs_indices # {} /\ reply = "No"
              THEN LET first == CHOOSE i \in modified_tabs_indices :
                                    \A j \in modified_tabs_indices : i <= j
                   IN  /\ widgets' = IF first = current THEN Aged(widgets)
                                     ELSE WithCurrent(Aged(widgets), tabs[first])
                       /\ current' = first
                       /\ UNCHANGED tabs
                       /\ last' = Done("close_event", tabs[first], FALSE)
              ELSE /\ widgets' = [w \in DOMAIN widgets |->
                                    CloseDocument(AgedWidget(widgets[w]))]
                   /\ UNCHANGED <<tabs, current>>
                   /\ last' = Done("close_event", 0, TRUE)

NextClose ==
    \/ WindowOpen /\ OpenFiles("B")
    \/ WindowOpen /\ CreateNewAssemblyTab
    \/ WindowOpen /\ \E i \in 1..MaxWidgets : SelectTab(i)
    \/ WindowOpen /\ current # 0 /\ DoDeletePage(tabs[current], "Yes")
    \/ WindowOpen /\ current # 0 /\ \E all \in BOOLEAN : AddToAssembly(tabs[current], all)
    \/ WindowOpen /\ \E i \in 1..MaxWidgets, reply \in CloseReplies, path \in SavePaths,
                        saved \in BOOLEAN : CloseTab(i, reply, path, saved)
    \/ \E reply \in Replies : CloseEvent(reply)

SpecClose == Init /\ [][NextClose]_vars

----------------------------------------------------------------------------
(* SpecSave: one widget whose document is loaded, paged, edited, saved      *)
(* under a name, with the file dialog cancelled or the engine failing to    *)
(* write at times, replaced by another load and closed.                     *)

NextSave ==
    \/ \E path \in {"A", "X"} : DoLoadPdf(1, path)
    \/ DoCloseDocument(1)
    \/ DoNextPage(1)
    \/ DoDeletePage(1, "Yes")
    \/ DoMoveCurrentPageDown(1)
    \/ \E factor \in {1000, 1500} : DoApplyZoom(1, factor)
    \/ \E save_path \in SavePaths, saved \in BOOLEAN : DoSaveAs(1, save_path, saved)

SpecSave == InitWidget /\ [][NextSave]_vars

----------------------------------------------------------------------------
(* SpecSaveSet: the main window with the two-page file and an assembly      *)
(* document open.  The user pages through and edits the document of the     *)
(* current tab, copies pages of the file to the assembly, and saves with    *)
(* Save and Save As, cancelling the file dialog or meeting a write error at *)
(* times.                                                                   *)

OnSaveTab(w) ==
    \/ DoNextPage(w)
    \/ DoDeletePage(w, "Yes")
    \/ DoMoveCurrentPageDown(w)
    \/ ReorderDialog(w)
    \/ \E all \in BOOLEAN : AddToAssembly(w, all)
    \/ \E save_path \in SavePaths, saved \in BOOLEAN : DoSaveAs(w, save_path, saved)
    \/ \E save_path \in SavePaths, saved \in BOOLEAN :
            DoSaveCurrentDocument(w, save_path, saved)

NextSaveSet ==
    \/ \E i \in 1..2 : SelectTab(i)
    \/ OnSaveTab(tabs[current])

SpecSaveSet == InitAsm /\ [][NextSaveSet]_vars

----------------------------------------------------------------------------
(* SpecTransplant: the main window with the two-page file and two assembly  *)
(* documents open, the tabs dragged into any order (the tab bar is          *)
(* movable).  The user pages forward through the documents, copies pages   *)
(* of a document that is not an assembly target to the assembly, saves      *)
(* assembly documents and closes tabs.                                      *)

\* the file first, an assembly first, the other assembly first
TabOrders == {<<1, 2, 3>>, <<2, 1, 3>>, <<3, 2, 1>>}

InitTransplant ==
    /\ widgets = <<AgedWidget(LoadPdf(NewWidget(FALSE), "B", FALSE).w),
                   SetupAssemblyDoc(NewWidget(TRUE), "assembly:/"),
                   SetupAssemblyDoc(NewWidget(TRUE), "assembly:/")>>
    /\ tabs \in TabOrders
    /\ current = 1
    /\ last = Done("create_new_assembly_tab", 3, TRUE)

OnTransplantTab(w) ==
    \/ DoNextPage(w)
    \/ \E all \in BOOLEAN : AddToAssemblyUpTo(w, all, MaxCopied)
    \/ widgets[w].is_assembly_target /\ DoSaveAs(w, "S", TRUE)

NextTransplant ==
    \/ \E i \in 1..3 : SelectTab(i)
    \/ \E i \in 1..3, reply \in CloseReplies, path \in SavePaths, saved \in BOOLEAN :
            CloseTab(i, reply, path, saved)
    \/ current # 0 /\ OnTransplantTab(tabs[current])

SpecTransplant == InitTransplant /\ [][NextTransplant]_vars

----------------------------------------------------------------------------
(* Properties of the page operations of one widget (Spec)                   *)

\* order lists every index of 0..n-1 once
IsPermutationOf(order, n) ==
    Len(order) = n /\ \A i \in 0..(n - 1) : \E k \in 1..n : order[k] = i

(* C2: a successful delete_page on a document of n > 1 pages with the       *)
(* cursor on c removes exactly page c (the pages before it stay, the pages  *)
(* after it move down by one), leaves n - 1 pages, sets is_modified and     *)
(* puts the cursor on min(c, n - 2).                                        *)
C2_DeleteRemovesCurrentPage ==
    [][last'.op = "delete_page" /\ last'.ok =>
        LET old == widgets[1]
            new == widgets'[1]
            c == old.current_page
            n == old.total_pages
        IN  /\ n > 1
            /\ new.doc.open
            /\ new.doc.pages = [i \in 1..(n - 1) |->
                                  IF i <= c THEN old.doc.pages[i] ELSE old.doc.pages[i + 1]]
            /\ new.total_pages = n - 1
            /\ new.is_modified
            /\ new.current_page = Min(c, n - 2)]_vars

\* the middle page of the three-page file was deleted: two pages, cursor on 1
C2_Witness ==
    /\ last.op = "delete_page" /\ last.ok
    /\ widgets[1].doc.pages = <<1, 3>>
    /\ widgets[1].total_pages = 2
    /\ widgets[1].current_page = 1
    /\ widgets[1].is_modified

(* C3: delete_page on a widget without a document or with at most one page  *)
(* returns False and leaves the widget as it was; in particular a document  *)
(* of one page never loses it.                                              *)
C3_DeleteRefused ==
    [][last'.op = "delete_page" /\ (~widgets[1].doc.open \/ widgets[1].total_pages <= 1) =>
        /\ ~last'.ok
        /\ widgets'[1] = AgedWidget(widgets[1])]_vars

\* a delete_page refused on a document of one page
C3_Witness ==
    /\ last.op = "delete_page" /\ ~last.ok
    /\ widgets[1].doc.open
    /\ widgets[1].total_pages = 1
    /\ Len(widgets[1].doc.pages) = 1

(* C4: move_page_to(from, to) with valid from # to yields the pages with    *)
(* the page at from removed and re-inserted at to (the others keep their    *)
(* relative order, the count stays), sets is_modified, and moves the cursor *)
(* to `to` if it was on `from` and leaves its value unchanged otherwise.    *)
C4_MovePageTo ==
    [][last'.op = "move_page_to" =>
       \A m \in MoveInputs :
        LET from_index == m[1]
            to_index == m[2]
            old == widgets[1]
            new == widgets'[1]
            n == old.total_pages
        IN  (/\ old.doc.open
             /\ from_index \in 0..(n - 1) /\ to_index \in 0..(n - 1)
             /\ from_index # to_index
             /\ DoMovePageTo(1, from_index, to_index))
            => /\ last'.ok
               /\ new.doc.pages = InsertAt(RemoveAt(old.doc.pages, from_index + 1),
                                           to_index + 1, old.doc.pages[from_index + 1])
               /\ new.total_pages = n /\ Len(new.doc.pages) = n
               /\ new.is_modified
               /\ new.current_page = IF old.current_page = from_index THEN to_index
                                     ELSE old.current_page]_vars

\* move_page_to(0, 2) on the three-page file with the cursor on 0
C4_Witness ==
    /\ last.op = "move_page_to" /\ last.ok
    /\ widgets[1].doc.pages = <<2, 3, 1>>
    /\ widgets[1].current_page = 2
    /\ widgets[1].is_modified

(* C5: apply_changes with a non-identity permutation new_order of the page  *)
(* indices puts at every new index i the page that was at index             *)
(* new_order[i], keeps the page count, sets is_modified and leaves the      *)
(* cursor on min(old cursor, count - 1).                                    *)
C5_ApplyPermutation ==
    [][last'.op = "apply_changes" =>
       \A new_order \in DialogOrders(widgets[1]) :
        LET old == widgets[1]
            new == widgets'[1]
            n == old.total_pages
        IN  (/\ IsPermutationOf(new_order, n)
             /\ new_order # RangeList(n)
             /\ DoApplyChanges(1, new_order))
            => /\ last'.ok
               /\ Len(new.doc.pages) = n
               /\ \A i \in 0..(n - 1) : new.doc.pages[i + 1] = old.doc.pages[new_order[i + 1] + 1]
               /\ new.total_pages = n
               /\ new.is_modified
               /\ new.current_page = Min(old.current_page, n - 1)]_vars

\* the order [1, 2, 0] applied to the three-page file
C5_Witness ==
    /\ last.op = "apply_changes" /\ last.ok
    /\ widgets[1].doc.pages = <<2, 3, 1>>
    /\ widgets[1].total_pages = 3
    /\ widgets[1].is_modified

(* C7: apply_changes with the identity order reports success and leaves     *)
(* the pages, the page count, the modified flag, the cursor and the         *)
(* document as they were; a clean document stays clean.                     *)
C7_IdentityOrder ==
    [][last'.op = "apply_changes" =>
       \A new_order \in DialogOrders(widgets[1]) :
        (new_order = RangeList(widgets[1].total_pages) /\ DoApplyChanges(1, new_order))
        => /\ last'.ok
           /\ widgets'[1] = AgedWidget(widgets[1])]_vars

\* the dialog applied on an unmodified document with its order dragged back
C7_Witness ==
    /\ last.op = "apply_changes" /\ last.ok
    /\ widgets[1].doc.open
    /\ widgets[1].doc.pages = SmallFile
    /\ ~widgets[1].is_modified

----------------------------------------------------------------------------
(* Properties of the documents of the main window (SpecSet)                 *)

(* C1: in every reachable state every document has its cursor inside its    *)
(* pages: 0 <= current_page < total_pages when it has pages, and            *)
(* current_page = 0 when it has none.                                       *)
C1_CursorInRange ==
    \A w \in DOMAIN widgets :
        /\ widgets[w].total_pages > 0 =>
                0 <= widgets[w].current_page /\ widgets[w].current_page < widgets[w].total_pages
        /\ widgets[w].total_pages = 0 => widgets[w].current_page = 0

\* the last page of the two-page file deleted from under the cursor
C1_Witness ==
    /\ last.op = "delete_page" /\ last.ok
    /\ last.w \in DOMAIN widgets
    /\ widgets[last.w].doc.pages = <<1>>
    /\ widgets[last.w].total_pages = 1
    /\ widgets[last.w].current_page = 0

----------------------------------------------------------------------------
(* Properties of the pixmap cache (SpecCache)                               *)

(* C9: in every reachable state the pixmap cache of a widget holds at most  *)
(* 10 entries.                                                              *)
C9_CacheBounded ==
    \A w \in DOMAIN widgets : Len(widgets[w].pixmap_cache) <= CACHE_LIMIT

\* a full cache that has already lost its first entry, the one of page 0
C9_Witness ==
    /\ Len(widgets[1].pixmap_cache) = CACHE_LIMIT
    /\ widgets[1].pixmap_cache[1].page = 1
    /\ widgets[1].current_page = CACHE_LIMIT

(* C10: eviction is first-in first-out.  A navigation that renders a page   *)
(* not in a full cache drops the entry inserted earliest and appends the    *)
(* new one; a navigation that finds its page in the cache leaves the        *)
(* entries and their order as they were.                                    *)
C10_FifoEviction ==
    [][last'.op \in {"goto_page", "next_page"} /\ last'.ok =>
        LET old == AgedWidget(widgets[1]).pixmap_cache
            new == widgets'[1].pixmap_cache
            hit == CacheFind(old, widgets'[1].current_page, widgets'[1].zoom_factor) # 0
        IN  /\ hit => new = old
            /\ ~hit /\ Len(old) = CACHE_LIMIT =>
                    /\ Len(new) = CACHE_LIMIT
                    /\ SubSeq(new, 1, CACHE_LIMIT - 1) = Tail(old)
                    /\ new[CACHE_LIMIT].page = widgets'[1].current_page
                    /\ new[CACHE_LIMIT].zoom = widgets'[1].zoom_factor
                    /\ new[CACHE_LIMIT].pixmap.fresh]_vars

(* page 10 came into a full cache: the entry of page 0, inserted first, is  *)
(* the one that went                                                        *)
C10_Witness ==
    /\ last.op = "next_page" /\ last.ok
    /\ widgets[1].current_page = CACHE_LIMIT
    /\ Len(widgets[1].pixmap_cache) = CACHE_LIMIT
    /\ widgets[1].pixmap_cache[1].page = 1
    /\ widgets[1].pixmap_cache[CACHE_LIMIT].page = CACHE_LIMIT
    /\ widgets[1].pixmap_cache[CACHE_LIMIT].pixmap.fresh

----------------------------------------------------------------------------
(* Properties of the cache under mutations (SpecAsm)                        *)

\* every entry of the cache was rendered by the handler that ran last
AllFresh(cache) == \A i \in 1..Len(cache) : cache[i].pixmap.fresh

(* The step is a change of the pages of widget w made by delete_page, a     *)
(* move handler or the reorder dialog, or a change of its zoom.             *)
MutationStep(w) ==
    \/ /\ last'.op \in {"delete_page", "move_current_page_up",
                        "move_current_page_down", "apply_zoom"}
       /\ last'.ok
       /\ last'.w = w
    \/ /\ last'.op = "move_page_to" /\ last'.ok /\ last'.w = w
       /\ \E m \in MoveInputs :
            /\ m[1] # m[2]
            /\ DoMovePageTo(w, m[1], m[2])
    \/ /\ last'.op = "apply_changes" /\ last'.ok /\ last'.w = w
       /\ \E new_order \in DialogOrders(widgets[w]) :
            /\ ~OrderUnchanged(new_order)
            /\ DoApplyChanges(w, new_order)

\* the step copied pages into the assembly document of widget w
InsertStep(w) ==
    /\ last'.op \in {"add_current_page_to_assembly", "add_all_pages_to_assembly"}
    /\ last'.ok
    /\ last'.w = w

(* C8 as stated: after every mutation of the pages, every insertion into    *)
(* the assembly document (empty before or not) and every zoom change, no    *)
(* entry that was in the cache before is still in it.                       *)
C8_ClearedByEveryInsert ==
    [][\A w \in DOMAIN widgets :
        MutationStep(w) \/ InsertStep(w) => AllFresh(widgets'[w].pixmap_cache)]_vars

(* C8, amended: after every mutation of the pages (delete, moves, reorder), *)
(* every insertion into an empty assembly document and every zoom change,   *)
(* no entry that was in the cache before is still in it; an insertion into  *)
(* an assembly document that already had pages does not clear the cache:    *)
(* short of the size limit, every entry cached before is still there.       *)
C8_ClearedByMutation ==
    [][\A w \in DOMAIN widgets :
        /\ MutationStep(w) \/ (InsertStep(w) /\ widgets[w].total_pages = 0)
                => AllFresh(widgets'[w].pixmap_cache)
        /\ InsertStep(w) /\ widgets[w].total_pages > 0
           /\ Len(widgets[w].pixmap_cache) < CACHE_LIMIT
                => \A i \in 1..Len(widgets[w].pixmap_cache) :
                        widgets'[w].pixmap_cache[i] = AgedWidget(widgets[w]).pixmap_cache[i]]_vars

\* the first page of the two-page file moved down: one entry, just rendered
C8_Witness ==
    /\ last.op = "move_current_page_down" /\ last.ok
    /\ widgets[last.w].doc.pages = <<2, 1>>
    /\ Len(widgets[last.w].pixmap_cache) = 1
    /\ AllFresh(widgets[last.w].pixmap_cache)

----------------------------------------------------------------------------
(* Properties of the reorder dialog on a long document (SpecReorder)        *)

(* C6: apply_changes validates the order it is given: an order that is not  *)
(* a permutation of the page indices, such as one listing only the first    *)
(* pages because thumbnail loading was stopped, is rejected and the         *)
(* document is left as it was; the dialog never changes the page count.     *)
C6_OrderValidated ==
    [][last'.op = "apply_changes" =>
       \A new_order \in DialogOrders(widgets[1]) :
        DoApplyChanges(1, new_order) =>
            /\ ~IsPermutationOf(new_order, widgets[1].total_pages) =>
                    /\ widgets'[1].doc = widgets[1].doc
                    /\ widgets'[1].is_modified = widgets[1].is_modified
            /\ widgets'[1].total_pages = widgets[1].total_pages
            /\ Len(widgets'[1].doc.pages) = Len(widgets[1].doc.pages)]_vars

----------------------------------------------------------------------------
(* Properties of search and of the navigation over its matches (SpecSearch) *)

\* the pixmap of the current page of wd with the cursor's match drawn active
ShowsCursorMatch(wd) ==
    LET sr == wd.search_results
        pm == wd.image_label.pixmap
    IN  /\ wd.image_label.kind = "pixmap"
        /\ ~pm.error
        /\ wd.current_page = sr.current_page
        /\ pm.content = wd.doc.pages[wd.current_page + 1]
        /\ sr.current_page \in ResultPages(sr)
        /\ pm.rects = sr.results[sr.current_page]
        /\ pm.active = sr.current_match
        /\ pm.active \in 0..(Len(pm.rects) - 1)

(* C11: after find_next has returned True the label shows the current page  *)
(* with exactly the match of the search cursor drawn active, whether the    *)
(* step went to another page, possibly served from the pixmap cache, or     *)
(* stayed on the page.                                                      *)
C11_FindNextShowsActiveMatch ==
    (last.op = "find_next" /\ last.ok) => ShowsCursorMatch(widgets[1])

(* C12: after search_text has returned True the widget is on the page of    *)
(* the first match and the label shows a pixmap rendered by this search,    *)
(* with the highlights of the new search and the first match active,        *)
(* whether or not that page was the current one already; no pixmap rendered *)
(* before the search is still shown.                                        *)
C12_SearchShowsFirstMatch ==
    (last.op = "search_text" /\ last.ok) =>
        LET wd == widgets[1]
            sr == wd.search_results
        IN  /\ wd.current_page = SortedPages(sr)[1]
            /\ sr.current_match = 0
            /\ ShowsCursorMatch(wd)
            /\ wd.image_label.pixmap.fresh

(* C13: after a search_text that found a match, total_matches is the sum of *)
(* the numbers of matches recorded per page, the pages recorded are exactly *)
(* the pages of the document with a hit, the search cursor is on match 0 of *)
(* the lowest page with matches, and that page is the current page.         *)
C13_SearchPostState ==
    (last.op = "search_text" /\ last.ok) =>
        LET wd == widgets[1]
            sr == wd.search_results
            hit == {p \in 0..(wd.total_pages - 1) :
                        HitCount(wd.doc.pages[p + 1], sr.query) > 0}
        IN  /\ hit # {}
            /\ ResultPages(sr) = hit
            /\ \A p \in hit : sr.results[p] = SearchFor(wd.doc.pages[p + 1], sr.query)
            /\ sr.total_matches = CountMatches(sr, ResultPages(sr))
            /\ sr.total_matches >= 1
            /\ sr.current_page \in hit
            /\ \A p \in hit : sr.current_page <= p
            /\ sr.current_match = 0
            /\ wd.current_page = sr.current_page

\* a search that moved the widget from page 0 to the first match, on page 1
C13_Witness ==
    /\ last.op = "search_text" /\ last.ok
    /\ widgets[1].search_results.current_page = 1
    /\ widgets[1].current_page = 1
    /\ widgets[1].image_label.pixmap.fresh
    /\ widgets[1].search_results.total_matches = 2

\* the cursor navigate_to_match(forward=True) is to reach from a valid cursor
ForwardCursor(sr) ==
    LET higher == {p \in ResultPages(sr) : p > sr.current_page}
    IN  IF sr.current_match + 1 < Len(sr.results[sr.current_page])
        THEN <<sr.current_page, sr.current_match + 1>>
        ELSE IF higher # {}
        THEN <<CHOOSE p \in higher : \A q \in higher : p <= q, 0>>
        ELSE <<CHOOSE p \in ResultPages(sr) : \A q \in ResultPages(sr) : p <= q, 0>>

(* C14: find_next visits the matches in one cyclic order, ascending by page *)
(* and by recorded order within the page: a forward step goes to the next   *)
(* match of the page if there is one, else to match 0 of the next higher    *)
(* page with matches, else to match 0 of the lowest page, so that the       *)
(* number of the current match across all pages goes up by exactly 1 modulo *)
(* the number of matches; a backward step takes it down by 1.               *)
C14_CyclicOrder ==
    [][(last'.op = "find_next" /\ last'.ok) =>
        \A forward \in BOOLEAN :
            DoFindNext(1, forward) =>
                LET sr == widgets[1].search_results
                    after == widgets'[1].search_results
                    N == CountMatches(sr, ResultPages(sr))
                    k == GetCurrentMatchIndex(sr)
                IN  /\ k \in 0..(N - 1)
                    /\ after.results = sr.results
                    /\ forward =>
                        /\ <<after.current_page, after.current_match>> = ForwardCursor(sr)
                        /\ GetCurrentMatchIndex(after) = (k + 1) % N
                    /\ ~forward =>
                        GetCurrentMatchIndex(after) = (k + N - 1) % N]_vars

\* a find_next that has put the cursor on the first match of the higher of
\* two pages with two matches each, the third of the four matches, and has
\* rendered that page with it active
C14_Witness ==
    /\ last.op = "find_next" /\ last.ok
    /\ Cardinality(ResultPages(widgets[1].search_results)) = 2
    /\ \A p \in ResultPages(widgets[1].search_results) :
            /\ Len(widgets[1].search_results.results[p]) = 2
            /\ p <= widgets[1].search_results.current_page
    /\ widgets[1].search_results.current_match = 0
    /\ GetCurrentMatchIndex(widgets[1].search_results) = 2
    /\ widgets[1].image_label.pixmap.fresh
    /\ widgets[1].image_label.pixmap.active = 0

\* the widget after n calls of find_next(forward)
RECURSIVE FindNextTimes(_, _, _)
FindNextTimes(wd, forward, n) ==
    IF n = 0 THEN wd
    ELSE FindNextTimes(FindNext(AgedWidget(wd), forward, IsCurrent(1)).w, forward, n - 1)

Cursor(wd) == <<wd.search_results.current_page, wd.search_results.current_match>>

(* C15: with total_matches = N > 0, N calls of find_next(forward=True)      *)
(* bring the search cursor back to the match it was on, the first match     *)
(* when they follow the search, and no fewer than N calls do; the same for  *)
(* N calls of find_next(forward=False).                                     *)
C15_FullCycle ==
    HasResults(widgets[1].search_results) =>
        LET wd == widgets[1]
            N == wd.search_results.total_matches
        IN  /\ (last.op = "search_text" /\ last.ok) =>
                    GetCurrentMatchIndex(wd.search_results) = 0
            /\ \A forward \in BOOLEAN :
                /\ Cursor(FindNextTimes(wd, forward, N)) = Cursor(wd)
                /\ \A n \in 1..(N - 1) :
                        Cursor(FindNextTimes(wd, forward, n)) # Cursor(wd)

\* find_next has brought the cursor to the first of four matches
C15_Witness ==
    /\ last.op = "find_next" /\ last.ok
    /\ widgets[1].search_results.total_matches = 4
    /\ Cardinality(ResultPages(widgets[1].search_results)) = 2
    /\ GetCurrentMatchIndex(widgets[1].search_results) = 0
    /\ widgets[1].current_page = widgets[1].search_results.current_page

\* the cursor of sr is on a recorded match
CursorValid(sr) ==
    /\ sr.current_page \in ResultPages(sr)
    /\ 0 <= sr.current_match
    /\ sr.current_match < Len(sr.results[sr.current_page])

\* the cursors navigate_to_match can be called with: unset, or on a match
PriorCursors(sr) ==
    {<<-1, -1>>} \cup
    UNION {{<<p, m>> : m \in 0..(Len(sr.results[p]) - 1)} : p \in ResultPages(sr)}

(* C16: whenever total_matches > 0, after a navigation call, forward or     *)
(* backward and from any prior cursor, the unset one included, current_page *)
(* is a key of results and 0 <= current_match < len(results[current_page]): *)
(* so it is in every state of the widget that has search results, and for   *)
(* navigate_to_match applied to its search results from every cursor.       *)
C16_CursorOnMatch ==
    HasResults(widgets[1].search_results) =>
        LET sr == widgets[1].search_results
        IN  /\ CursorValid(sr)
            /\ \A c \in PriorCursors(sr), forward \in BOOLEAN :
                LET nav == NavigateToMatch([sr EXCEPT !.current_page = c[1],
                                                      !.current_match = c[2]], forward)
                IN  /\ CursorValid(nav.sr)
                    /\ nav.page = nav.sr.current_page

\* find_next has stepped onto the last match of the highest page with matches
C16_Witness ==
    /\ last.op = "find_next" /\ last.ok
    /\ HasResults(widgets[1].search_results)
    /\ Cardinality(ResultPages(widgets[1].search_results)) = 2
    /\ \A p \in ResultPages(widgets[1].search_results) :
            p <= widgets[1].search_results.current_page
    /\ widgets[1].search_results.current_match = 1
    /\ Len(widgets[1].search_results.results[widgets[1].search_results.current_page]) = 2

(* C17: the page mutations reset the search results, so that in every state *)
(* every page index recorded in results, and the page of the search cursor  *)
(* when it is set, is below total_pages and the rectangles recorded for a   *)
(* page are the matches of the page that has that index now.                *)
C17_SearchIndexCurrent ==
    LET wd == widgets[1]
        sr == wd.search_results
    IN  /\ \A p \in ResultPages(sr) :
            /\ p < wd.total_pages
            /\ sr.results[p] = SearchFor(wd.doc.pages[p + 1], sr.query)
        /\ sr.current_page >= 0 => sr.current_page < wd.total_pages

----------------------------------------------------------------------------
(* Properties of copying pages to the assembly document (SpecTransplant)    *)

\* the step is a transplant that found its target and inserted the pages
Transplanted ==
    /\ last'.op \in {"add_current_page_to_assembly", "add_all_pages_to_assembly"}
    /\ last'.ok

\* the pages a transplant started on the current tab copies
CopiedPages ==
    LET src == widgets[tabs[current]]
    IN  IF last'.op = "add_all_pages_to_assembly" THEN src.doc.pages
        ELSE <<src.doc.pages[src.current_page + 1]>>

(* C18: copying the current page, or all k pages, of a document to an       *)
(* assembly document of m pages appends them at the end in the order of the *)
(* source: the pages it had stay as they were, total_pages becomes m + 1 or *)
(* m + k, the current page of the assembly becomes m, the first page        *)
(* inserted, it is marked modified and its label shows that page; for m = 0 *)
(* as well.                                                                 *)
C18_TransplantAppends ==
    [][Transplanted =>
        LET before == widgets[last'.w]
            after == widgets'[last'.w]
            m == before.total_pages
        IN  /\ Len(before.doc.pages) = m
            /\ after.doc.pages = before.doc.pages \o CopiedPages
            /\ after.total_pages = m + Len(CopiedPages)
            /\ after.current_page = m
            /\ after.is_modified
            /\ after.image_label.kind = "pixmap"
            /\ ~after.image_label.pixmap.error
            /\ after.image_label.pixmap.content = CopiedPages[1]]_vars

\* both pages of a document have been copied to an assembly of one page
C18_Witness ==
    /\ last.op = "add_all_pages_to_assembly" /\ last.ok
    /\ widgets[last.w].total_pages = 3
    /\ widgets[last.w].current_page = 1
    /\ widgets[last.w].doc.pages = <<2, 1, 2>>
    /\ widgets[last.w].image_label.pixmap.content = 1

FlaggedTabs == {i \in 1..Len(tabs) : widgets[tabs[i]].is_assembly_target}

(* C20: a transplant goes to the first document in tab order that is an     *)
(* assembly target and to no other document; when no document is one,       *)
(* because both assembly documents were saved or closed, it changes no      *)
(* document.                                                                *)
C20_RoutedToFirstTarget ==
    [][last'.op \in {"add_current_page_to_assembly", "add_all_pages_to_assembly"} =>
        /\ FlaggedTabs = {} => ~last'.ok
        /\ (FlaggedTabs # {} /\ widgets[tabs[current]].total_pages > 0) => last'.ok
        /\ ~last'.ok =>
            /\ widgets' = Aged(widgets)
            /\ UNCHANGED <<tabs, current>>
        /\ last'.ok =>
            LET first == tabs[CHOOSE i \in FlaggedTabs : \A j \in FlaggedTabs : i <= j]
            IN  /\ last'.w = first
                /\ widgets'[first].total_pages > widgets[first].total_pages
                /\ tabs'[current'] = first
                /\ \A v \in DOMAIN widgets :
                        v # first => widgets'[v] = AgedWidget(widgets[v])]_vars

\* with both assembly documents open, the one of the first tab, which is not
\* the one created first, has received the pages and the other is still empty
C20_Witness ==
    /\ last.op \in {"add_current_page_to_assembly", "add_all_pages_to_assembly"}
    /\ last.ok
    /\ tabs = <<3, 2, 1>>
    /\ last.w = 3
    /\ widgets[2].is_assembly_target /\ widgets[3].is_assembly_target
    /\ widgets[3].total_pages > 0
    /\ widgets[2].total_pages = 0

----------------------------------------------------------------------------
(* Properties of the set of open documents (SpecSet)                        *)

(* C21: whatever files were opened, assembly documents created, documents   *)
(* saved and tabs closed, at most one open document is an assembly target.  *)
C21_AtMostOneAssemblyTarget ==
    Cardinality({w \in DOMAIN widgets : widgets[w].is_assembly_target}) <= 1

----------------------------------------------------------------------------
(* Properties of the modified flag and of saving (SpecSave, SpecSaveSet)    *)

\* the step takes the modified flag of widget 1 from true to false
FlagCleared == widgets[1].is_modified /\ ~widgets'[1].is_modified

(* C22, as stated: whenever the modified flag goes from true to false the   *)
(* step is a save that succeeded; navigation, zoom, a page mutation, a save *)
(* that failed or was cancelled, load_pdf and close_document do not clear   *)
(* it.                                                                      *)
C22_ClearedOnlyBySave ==
    [][FlagCleared => (last'.op = "save_as" /\ last'.ok)]_vars

(* C22, amended: the modified flag goes from true to false only in a save   *)
(* that succeeded, in load_pdf, which closes the document it replaces, and  *)
(* in close_document; navigation, zoom, page mutations and a save that      *)
(* failed or was cancelled never clear it.                                  *)
C22_ClearedBySaveLoadClose ==
    [][FlagCleared =>
        \/ last'.op = "save_as" /\ last'.ok
                /\ widgets'[1].doc = widgets[1].doc
        \/ last'.op = "load_pdf" /\ widgets'[1].doc # widgets[1].doc
        \/ last'.op = "close_document" /\ ~widgets'[1].doc.open]_vars

\* an edited document has been saved under the name S
C22_Witness ==
    /\ last.op = "save_as" /\ last.ok
    /\ ~widgets[1].is_modified
    /\ widgets[1].current_filepath = "S"
    /\ widgets[1].doc.open
    /\ widgets[1].doc.pages # SmallFile

(* C23: in every state, an open document whose pages are not the pages it   *)
(* had when it was last loaded or saved, or no pages for an assembly        *)
(* document never saved, is marked modified, so it is after every reorder   *)
(* that changed the order; every delete, move and insertion of pages that   *)
(* succeeds leaves it marked modified.                                      *)
C23_ChangedIsModified ==
    \A w \in DOMAIN widgets :
        /\ (widgets[w].doc.open /\ widgets[w].doc.pages # widgets[w].saved_pages)
                => widgets[w].is_modified
        /\ (last.w = w /\ last.ok /\
            last.op \in {"delete_page", "move_current_page_down",
                         "add_current_page_to_assembly", "add_all_pages_to_assembly"})
                => widgets[w].is_modified

\* a page has been deleted from a document that was saved with two pages
\* under the name S
C23_Witness ==
    /\ last.op = "delete_page" /\ last.ok
    /\ widgets[last.w].current_filepath = "S"
    /\ Len(widgets[last.w].saved_pages) = 2
    /\ Len(widgets[last.w].doc.pages) = 1
    /\ widgets[last.w].is_modified

\* widget wd after a save under path that succeeded: nothing else differs
SavedUnder(wd, path) ==
    [AgedWidget(wd) EXCEPT !.current_filepath = path,
                           !.saved_pages = wd.doc.pages,
                           !.is_assembly_target = FALSE,
                           !.is_modified = FALSE]

(* C24: a save that succeeds sets current_filepath to the path written,     *)
(* clears is_assembly_target and is_modified and changes nothing else of    *)
(* the document, its pages, current page and zoom included; a save that     *)
(* fails or is cancelled returns False and leaves the document as it was.   *)
(* Save As writes the path picked in the file dialog, Save the path the     *)
(* document has, or goes through Save As for a document without one.        *)
C24_SaveSetsPathAndFlags ==
    [][last'.op \in {"save_as", "save_current_document"} =>
        LET w == tabs[current]
            wd == widgets[w]
            own == wd.current_filepath # "" /\ wd.current_filepath # "assembly:/"
        IN  \A save_path \in SavePaths, saved \in BOOLEAN :
                /\ DoSaveAs(w, save_path, saved) =>
                    /\ last'.ok = (wd.doc.open /\ save_path # "" /\ saved)
                    /\ widgets'[w] = IF last'.ok THEN SavedUnder(wd, save_path)
                                     ELSE AgedWidget(wd)
                /\ DoSaveCurrentDocument(w, save_path, saved) =>
                    /\ last'.ok = /\ wd.is_modified /\ saved
                                  /\ (own \/ save_path # "")
                    /\ widgets'[w] =
                        IF last'.ok
                        THEN SavedUnder(wd, IF own THEN wd.current_filepath ELSE save_path)
                        ELSE AgedWidget(wd)]_vars

\* the assembly document, with pages copied to it, has been saved under the
\* name S and is an ordinary document now
C24_Witness ==
    /\ last.op \in {"save_as", "save_current_document"} /\ last.ok
    /\ widgets[2].current_filepath = "S"
    /\ ~widgets[2].is_assembly_target
    /\ ~widgets[2].is_modified
    /\ widgets[2].total_pages = 2
    /\ last.w = 2

----------------------------------------------------------------------------
(* Properties of the engine handles and of engine failures (SpecEngine)     *)

(* C25: every engine handle the program opens is released exactly once: a   *)
(* widget that holds a document has one open handle, the document's, and a  *)
(* widget without a document has none; the handle replaced by a load, a     *)
(* move or a reorder is closed, and so is the temporary handle of a         *)
(* reconstruction that fails.                                               *)
C25_HandlesReleasedOnce ==
    \A w \in DOMAIN widgets :
        widgets[w].open_handles = IF widgets[w].doc.open THEN 1 ELSE 0

(* C26: after close_document on a widget that held a document every field   *)
(* has the value it had after construction: no document, no file path, no   *)
(* pages, page index 0, zoom factor 1.0, not modified, an empty pixmap      *)
(* cache and a reset search index.                                          *)
C26_CloseResetsAllFields ==
    (last.op = "close_document" /\ last.ok) =>
        LET wd == widgets[last.w]
            initial == NewWidget(FALSE)
        IN  /\ wd.doc = initial.doc
            /\ wd.current_filepath = initial.current_filepath
            /\ wd.total_pages = initial.total_pages
            /\ wd.current_page = initial.current_page
            /\ wd.zoom_factor = initial.zoom_factor
            /\ wd.is_modified = initial.is_modified
            /\ wd.pixmap_cache = initial.pixmap_cache
            /\ wd.search_results = initial.search_results

(* C27: load_pdf closes the document the widget held before it opens the    *)
(* file.  When it returns True the widget holds the pages of the file, one  *)
(* open handle, page index 0, zoom factor 1.0, is not modified, has a reset *)
(* search index and only pixmaps rendered by this load in its cache.  When  *)
(* the engine cannot open the file it returns False and the widget holds no *)
(* document, no handle and no pages.  No exception leaves load_pdf.         *)
C27_LoadReplaces ==
    (last.op = "load_pdf" /\ ~widgets[last.w].is_assembly_target) =>
        LET wd == widgets[last.w]
        IN  /\ ~last.raised
            /\ last.ok =>
                /\ wd.doc = OpenDoc(FilePages(wd.current_filepath))
                /\ FileReadable(wd.current_filepath)
                /\ wd.total_pages = Len(FilePages(wd.current_filepath))
                /\ wd.open_handles = 1
                /\ wd.current_page = 0
                /\ wd.zoom_factor = ZOOM_DEFAULT
                /\ ~wd.is_modified
                /\ wd.search_results = SearchReset
                /\ AllFresh(wd.pixmap_cache)
            /\ ~last.ok =>
                /\ wd.doc = NoDoc
                /\ wd.open_handles = 0
                /\ wd.total_pages = 0

(* a load that failed on a widget whose earlier document had been zoomed    *)
C27_Witness ==
    /\ last.op = "load_pdf"
    /\ ~last.ok
    /\ ~widgets[1].doc.open
    /\ widgets[1].zoom_factor = 1500

----------------------------------------------------------------------------
(* Properties of opening files (SpecOpen)                                   *)

\* the tabs that show the file of a path
TabsShowing(path) == {i \in 1..Len(tabs) : widgets[tabs[i]].current_filepath = path}

(* C28: open_files on the path of a document that is open adds no tab and  *)
(* makes the tab of that document the current one; open_files on a file     *)
(* the engine cannot open adds no tab; and no two tabs show the same file.  *)
C28_OpenAddsNoDuplicate ==
    [][last'.op = "open_files" =>
        /\ \A path \in OpenPaths :
              OpenFiles(path) =>
                  IF TabsShowing(path) # {}
                  THEN /\ tabs' = tabs
                       /\ current' \in TabsShowing(path)
                  ELSE ~FileReadable(path) => (tabs' = tabs /\ current' = current)
        /\ \A path \in OpenPaths : Cardinality(TabsShowing(path)') <= 1]_vars

(* the first of two open files is opened again, and its tab, which was not  *)
(* the current one, gets the focus                                          *)
C28_Witness ==
    /\ last.op = "open_files"
    /\ ~last.ok
    /\ last.w # 0
    /\ Len(tabs) = 2
    /\ current = 1
    /\ tabs[current] = last.w
    /\ widgets[tabs[1]].current_filepath = "B"
    /\ widgets[tabs[2]].current_filepath = "A"
    /\ widgets[tabs[2]].image_label.pixmap.fresh = FALSE

----------------------------------------------------------------------------
(* Properties of the re-entrancy guard of display_page (SpecRender)         *)

(* C29: a display_page call made on a widget whose display_page is in       *)
(* progress changes nothing, and when the outermost display_page has left   *)
(* its finally block, on whatever path it took through the try block, the   *)
(* flag _update_in_progress is False again: the flag is set exactly while a *)
(* call is in its try or finally block, and the refresh of the main window  *)
(* that ends the call starts no display_page.                               *)
C29_GuardReleased ==
    [][/\ \A w \in DOMAIN widgets :
            /\ (widgets[w].update_in_progress /\ last'.op = "display_page" /\ last'.w = w)
                    => widgets' = widgets
            /\ widgets'[w].update_in_progress
                    <=> widgets'[w].display_at \in {"try", "finally"}
            /\ widgets[w].display_at = "refresh"
                    => widgets'[w].display_at \in {"refresh", "idle"}
      ]_vars

(* display_page has just been called on the current tab while its           *)
(* display_page, whose engine call raised, is at its finally block          *)
C29_Witness ==
    /\ last.op = "display_page"
    /\ ~last.ok
    /\ IsCurrent(last.w)
    /\ widgets[last.w].display_at = "finally"
    /\ widgets[last.w].update_in_progress
    /\ widgets[last.w].image_label.pixmap.error

----------------------------------------------------------------------------
(* Properties of engine failures (SpecEngine)                               *)

(* C30: an engine failure inside a handler is caught in the handler, which  *)
(* reports it and returns: no exception leaves a handler, the branch that   *)
(* reports the error included.                                              *)
C30_NoExceptionEscapes == ~last.raised

----------------------------------------------------------------------------
(* Properties of refused calls (SpecNav)                                    *)

\* index is no page index of the document of the widget
OutOfRange(wd, index) == ~(0 <= index /\ index < wd.total_pages)

(* C31: goto_page and move_page_to with an index that is no page of the     *)
(* document, goto_page with the current index, next_page on the last page,  *)
(* prev_page and move_current_page_up on page 0 and move_current_page_down  *)
(* on the last page return False, raise nothing and leave the widget as it  *)
(* was: pages, page index, modified flag, cache and handle.                 *)
C31_RefusedCallsChangeNothing ==
    [][LET wd == widgets[1]
           Refused == /\ ~last'.ok
                      /\ ~last'.raised
                      /\ widgets' = Aged(widgets)
       IN  /\ last'.op = "goto_page" =>
                \A i \in PageInputs :
                    ((OutOfRange(wd, i) \/ i = wd.current_page) /\ DoGotoPage(1, i))
                        => Refused
           /\ last'.op = "move_page_to" =>
                \A m \in MoveInputs :
                    ((OutOfRange(wd, m[1]) \/ OutOfRange(wd, m[2]))
                        /\ DoMovePageTo(1, m[1], m[2])) => Refused
           /\ last'.op = "next_page" =>
                ((wd.current_page >= wd.total_pages - 1 /\ DoNextPage(1)) => Refused)
           /\ last'.op = "prev_page" =>
                ((wd.current_page <= 0 /\ DoPrevPage(1)) => Refused)
           /\ last'.op = "move_current_page_up" =>
                ((wd.current_page <= 0 /\ DoMoveCurrentPageUp(1)) => Refused)
           /\ last'.op = "move_current_page_down" =>
                ((wd.current_page >= wd.total_pages - 1 /\ DoMoveCurrentPageDown(1))
                    => Refused)
    ]_vars

(* move_page_to has been refused on a modified document that shows its      *)
(* last page from the cache                                                 *)
C31_Witness ==
    /\ last.op = "move_page_to"
    /\ ~last.ok
    /\ widgets[1].doc.open
    /\ widgets[1].is_modified
    /\ widgets[1].current_page = widgets[1].total_pages - 1
    /\ Len(widgets[1].pixmap_cache) > 0

----------------------------------------------------------------------------
(* Properties of the zoom factor (SpecZoom)                                 *)

(* C32: the zoom factor of every widget is within the range 0.1 to 5.0 in   *)
(* every reachable state, whatever factors apply_zoom is called with and    *)
(* whatever loads, new assembly documents and other handlers come between.  *)
C32_ZoomInRange ==
    \A w \in DOMAIN widgets :
        ZOOM_MIN <= widgets[w].zoom_factor /\ widgets[w].zoom_factor <= ZOOM_MAX

\* apply_zoom has taken a factor above the range and the widget is at its end
C32_Witness ==
    /\ last.op = "apply_zoom"
    /\ last.ok
    /\ widgets[last.w].zoom_factor = ZOOM_MAX
    /\ Len(tabs) = 2

(* The step is apply_zoom(factor) on the current tab taking the requested   *)
(* factor limited to the range: the zoom factor becomes that value, the     *)
(* cache holds nothing rendered before the call and True is returned if the *)
(* value is further than 0.01 from the zoom factor; otherwise nothing       *)
(* changes and False is returned.                                           *)
ZoomClamped(w, factor) ==
    LET wd == widgets[w]
        clamped == Max(ZOOM_MIN, Min(factor, ZOOM_MAX))
    IN  IF Abs(wd.zoom_factor - clamped) > ZOOM_EPSILON
        THEN /\ last'.ok
             /\ widgets'[w].zoom_factor = clamped
             /\ AllFresh(widgets'[w].pixmap_cache)
        ELSE /\ ~last'.ok
             /\ widgets' = Aged(widgets)

\* the step is an apply_zoom that changes nothing and returns False
ZoomRefused == ~last'.ok /\ widgets' = Aged(widgets)

----------------------------------------------------------------------------
(* Properties of the move handlers (SpecNav)                                *)

(* C34: wherever its boundary guard passes, move_current_page_up does what  *)
(* move_page_to(current_page, current_page - 1) does, and                   *)
(* move_current_page_down what move_page_to(current_page, current_page + 1) *)
(* does: the same pages, page count, page index, modified flag and cache,   *)
(* and the same value returned.                                             *)
C34_MoveUpDownAsMovePageTo ==
    \A w \in DOMAIN widgets, isCur \in BOOLEAN :
        LET wd == AgedWidget(widgets[w])
            cp == wd.current_page
        IN  /\ (wd.doc.open /\ cp > 0) =>
                    MoveCurrentPageUp(wd, isCur) = MovePageTo(wd, cp, cp - 1, isCur)
            /\ (wd.doc.open /\ cp < wd.total_pages - 1) =>
                    MoveCurrentPageDown(wd, isCur) = MovePageTo(wd, cp, cp + 1, isCur)

(* move_current_page_up has moved the last page of a document that was      *)
(* reordered before to the middle                                           *)
C34_Witness ==
    /\ last.op = "move_current_page_up"
    /\ last.ok
    /\ widgets[1].doc.pages = <<2, 3, 1>>
    /\ widgets[1].current_page = 1
    /\ widgets[1].is_modified

(* C35: a tab close releases and removes a modified document only when the  *)
(* user chose Discard, or chose Save and the save succeeded; on Cancel, a   *)
(* cancelled save dialog or a failed save the tab and the document stay,    *)
(* with the same pages, modified flag and handles.  A close of the window   *)
(* with a modified document open that the user does not confirm releases    *)
(* no document.                                                             *)
C35_ModifiedKeptUnlessDiscardedOrSaved ==
    [][/\ last'.op = "close_tab" =>
            \A i \in 1..Len(tabs), reply \in CloseReplies, path \in SavePaths,
               saved \in BOOLEAN :
                (widgets[tabs[i]].is_modified /\ CloseTab(i, reply, path, saved)) =>
                    IF reply = "Discard" \/ (reply = "Save" /\ path # "" /\ saved)
                    THEN /\ Len(tabs') = Len(tabs) - 1
                         /\ Len(widgets') = Len(widgets) - 1
                    ELSE /\ tabs' = tabs
                         /\ Len(widgets') = Len(widgets)
                         /\ widgets'[tabs[i]].doc = widgets[tabs[i]].doc
                         /\ widgets'[tabs[i]].is_modified
                         /\ widgets'[tabs[i]].open_handles = widgets[tabs[i]].open_handles
       /\ last'.op = "close_event" =>
            \A reply \in Replies :
                (/\ reply # "Yes"
                 /\ \E i \in 1..Len(tabs) : widgets[tabs[i]].is_modified
                 /\ CloseEvent(reply)) =>
                    /\ tabs' = tabs
                    /\ \A w \in DOMAIN widgets :
                         /\ widgets'[w].doc = widgets[w].doc
                         /\ widgets'[w].is_modified = widgets[w].is_modified
                         /\ widgets'[w].open_handles = widgets[w].open_handles
      ]_vars

\* a close of a modified tab was cancelled or its save failed, and a close
\* of the window was refused: the modified document is still open
C35_Witness ==
    /\ last.op \in {"close_tab", "close_event"}
    /\ ~last.ok
    /\ Len(tabs) = 2
    /\ \E w \in DOMAIN widgets :
        widgets[w].is_modified /\ widgets[w].doc.open /\ Len(widgets[w].doc.pages) = 2

\* the cursor of a search result
CursorAt(sr) == <<sr.current_page, sr.current_match>>

\* the search result with its cursor on match m of page p
WithCursor(sr, p, m) == [sr EXCEPT !.current_page = p, !.current_match = m]

(* C36: forward and backward navigation are inverse.  For every search      *)
(* result with matches and every cursor on one of its matches,              *)
(* navigate_to_match forward and then backward puts the cursor back, and so *)
(* does backward and then forward, within a page, from one page with        *)
(* matches to the next and across the wrap-around.                          *)
C36_ForwardBackwardInverse ==
    LET sr == widgets[1].search_results
    IN  HasResults(sr) =>
            \A p \in ResultPages(sr) : \A m \in 0..(Len(sr.results[p]) - 1) :
                LET at == WithCursor(sr, p, m)
                IN  /\ CursorValid(at)
                    /\ CursorAt(NavigateToMatch(NavigateToMatch(at, TRUE).sr, FALSE).sr)
                            = <<p, m>>
                    /\ CursorAt(NavigateToMatch(NavigateToMatch(at, FALSE).sr, TRUE).sr)
                            = <<p, m>>

\* find_next has put the cursor on the last match, the second one of the
\* second page with matches, from where forward wraps to the first match
C36_Witness ==
    LET sr == widgets[1].search_results
    IN  /\ last.op = "find_next" /\ last.ok
        /\ HasResults(sr) /\ CursorValid(sr)
        /\ Cardinality(ResultPages(sr)) = 2
        /\ \A p \in ResultPages(sr) : p <= sr.current_page
        /\ Len(sr.results[sr.current_page]) = 2
        /\ sr.current_match = 1
        /\ CursorAt(NavigateToMatch(sr, TRUE).sr) # CursorAt(sr)
        /\ NavigateToMatch(sr, TRUE).sr.current_page < sr.current_page
        /\ NavigateToMatch(sr, TRUE).sr.current_match = 0

\* the handlers that page through, zoom and search a document
ViewOps == {"goto_page", "next_page", "prev_page", "apply_zoom", "search_text", "find_next"}

\* the handlers that copy pages to the assembly document
TransplantOps == {"add_current_page_to_assembly", "add_all_pages_to_assembly"}

(* C37: goto_page, next_page, prev_page, apply_zoom, search_text and        *)
(* find_next leave the pages, the page count, the modified flag, the file   *)
(* path and the assembly-target flag of every document as they were; and a  *)
(* handler of one widget leaves the current page, the zoom factor, the      *)
(* pixmap cache and the search result of every other widget as they were,   *)
(* but for the assembly target that pages are copied to.                    *)
C37_FrameKept ==
    [][/\ last'.op \in ViewOps =>
            \A w \in DOMAIN widgets :
                /\ widgets'[w].doc = widgets[w].doc
                /\ widgets'[w].total_pages = widgets[w].total_pages
                /\ widgets'[w].is_modified = widgets[w].is_modified
                /\ widgets'[w].current_filepath = widgets[w].current_filepath
                /\ widgets'[w].is_assembly_target = widgets[w].is_assembly_target
       /\ (last'.op \in ViewOps \cup TransplantOps \cup {"delete_page"}) =>
            \A o \in DOMAIN widgets \ {tabs[current]} :
                (last'.op \in TransplantOps /\ o = last'.w) \/
                    /\ widgets'[o].current_page = widgets[o].current_page
                    /\ widgets'[o].zoom_factor = widgets[o].zoom_factor
                    /\ widgets'[o].pixmap_cache = AgedWidget(widgets[o]).pixmap_cache
                    /\ widgets'[o].search_results = widgets[o].search_results
      ]_vars

\* a search has found matches in the document of the current tab while the
\* first tab holds a zoomed document with a search result, a cursor off the
\* first page and a cached pixmap of its own
C37_Witness ==
    /\ last.op = "search_text" /\ last.ok
    /\ Len(tabs) = 3
    /\ tabs[current] = last.w
    /\ last.w # 1
    /\ HasResults(widgets[1].search_results)
    /\ widgets[1].zoom_factor = 1500
    /\ widgets[1].current_page > 0
    /\ Len(widgets[1].pixmap_cache) > 0
    /\ widgets[last.w].zoom_factor = 1000
    /\ HasResults(widgets[last.w].search_results)

\* the search result holds no match and its cursor is unset, and find_next
\* in either direction returns False and changes nothing
NoActiveResults(wd) ==
    /\ wd.search_results.total_matches = 0
    /\ wd.search_results.current_page = -1
    /\ wd.search_results.current_match = -1
    /\ \A forward \in BOOLEAN :
        FindNext(wd, forward, FALSE) = [w |-> wd, ok |-> FALSE]

(* C38: whenever search_text returns False the search result holds nothing  *)
(* left by that call.  With an empty query or no open document it is the    *)
(* search result of before; with no match, or with the engine raising       *)
(* during the scan of the pages, it holds no match and its cursor is unset, *)
(* and a following find_next returns False and changes nothing.             *)
C38_FailedSearchLeavesNoResults ==
    [][(last'.op = "search_text" /\ ~last'.ok) =>
        LET wd == widgets[1]
            Kept == widgets'[1].search_results = wd.search_results
        IN  /\ \A query \in Queries :
                DoSearchText(1, query) =>
                    IF query = "" \/ ~wd.doc.open THEN Kept
                    ELSE NoActiveResults(widgets'[1])
            /\ \A query \in Queries, fail_at \in 0..(MaxPages - 1) :
                DoSearchTextFailing(1, query, fail_at) =>
                    IF query = "" \/ ~wd.doc.open THEN Kept
                    ELSE NoActiveResults(widgets'[1])
      ]_vars

====
